---- MODULE Spec2Model ----
(***************************************************************************)
(* Model of the image extraction pipeline of imgserver (src/imgparse.go,   *)
(* second revision of the file, lines 273-691): the scanner goroutine of   *)
(* imageParserImp.parseImage, the control loop of                          *)
(* imgExtractorImp.extractImages with its deferred cancel-and-drain, and   *)
(* the fetch workers started by fetchImage and by                          *)
(* backoffImageFetcher.fetchImage.                                         *)
(*                                                                         *)
(* Go strings are sequences of one-character strings.  Go slice indices    *)
(* are 0-based; positions here are 1-based, so srcIndex = 0 stands for     *)
(* Go's -1 ("no src seen") and srcIndex = k for Go's k-1.                  *)
(* Unbuffered channels are rendezvous: a goroutine that reached a send     *)
(* statement waits in a "send" position and the value moves in the one     *)
(* step that the receiver takes.                                           *)
(***************************************************************************)
EXTENDS Integers, Sequences, FiniteSets, TLC

(***************************************************************************)
(* Bounds                                                                  *)
(***************************************************************************)
\* longest document (number of tokens before the terminal ErrorToken)
MaxDoc == 2
\* ticks of the backoff clock after which NextBackOff answers Stop
MaxElapsedTicks == 1

\* most attributes of one img element in the runs over single elements
MaxAttrs == 3

\* longest document in the runs in which the caller cancels
MaxCancelDoc == 1

\* longest document in the runs checked under fair scheduling
MaxFairDoc == 1

\* longest document in the runs followed through HandleLogic
MaxHandlerDoc == 1

(***************************************************************************)
(* Strings                                                                 *)
(***************************************************************************)
Letters == {"a", "b", "c", "d", "e", "f", "g", "h", "i", "j", "k", "l", "m", "n", "o", "p",
            "q", "r", "s", "t", "u", "v", "w", "x", "y", "z"}

HexDigits == {"0", "1", "2", "3", "4", "5", "6", "7", "8", "9",
              "a", "b", "c", "d", "e", "f"}

\* strings.HasPrefix
HasPrefix(s, p) == Len(s) >= Len(p) /\ SubSeq(s, 1, Len(p)) = p

\* strings.ContainsRune
ContainsRune(s, c) == \E i \in 1..Len(s) : s[i] = c

\* index of the first occurrence of c in s, 0 when there is none
IndexOf(s, c) ==
    IF ContainsRune(s, c)
    THEN CHOOSE i \in 1..Len(s) : s[i] = c /\ \A j \in 1..(i - 1) : s[j] # c
    ELSE 0

RECURSIVE TrimLeft(_, _)
TrimLeft(s, c) == IF s # <<>> /\ Head(s) = c THEN TrimLeft(Tail(s), c) ELSE s

RECURSIVE TrimRight(_, _)
TrimRight(s, c) ==
    IF s # <<>> /\ s[Len(s)] = c THEN TrimRight(SubSeq(s, 1, Len(s) - 1), c) ELSE s

\* strings.Trim(s, c) for a one-character cutset
Trim(s, c) == TrimRight(TrimLeft(s, c), c)

\* strings.TrimSpace; the space is the only white space of this model
TrimSpace(s) == Trim(s, " ")

StrData == <<"d", "a", "t", "a", ":">>
StrBase64 == <<";", "b", "a", "s", "e", "6", "4", ",">>
StrImage == <<"i", "m", "a", "g", "e">>
StrHttp == <<"h", "t", "t", "p">>

(***************************************************************************)
(* Errors.  A Go error value is a record; NilError is the nil error.       *)
(***************************************************************************)
NilError == [code |-> 0, desc |-> "nil", status |-> 0, url |-> <<>>, cause |-> "nil"]

\* &HandlerError{statusCode, description, cause}; status and url are the
\* values formatted into the description
HandlerError(code, desc, status, url, cause) ==
    [code |-> code, desc |-> desc, status |-> status, url |-> url, cause |-> cause]

\* z.Err() of the tokenizer when it is not io.EOF
TokenizerError == [code |-> -1, desc |-> "tokenizer", status |-> 0, url |-> <<>>,
                   cause |-> "read"]

(***************************************************************************)
(* Image tags                                                              *)
(***************************************************************************)
\* the allow-set without alt
supportedImgAttributesNoAlt == {"src", "style", "longdesc", "width", "height"}

supportedImgAttributes == {"src", "alt", "style", "longdesc", "width", "height"}

\* the zero imgTag
ZeroImg == [srcIndex |-> 0, attr |-> <<>>]

\* imgTag.src
src(img) == img.attr[img.srcIndex].Val

\* imgTag.setSrc on a tag value: the attribute at srcIndex gets the value
setSrc(img, val) ==
    [img EXCEPT !.attr = [img.attr EXCEPT ![img.srcIndex] =
                              [Key |-> img.attr[img.srcIndex].Key, Val |-> val]]]

\* no tag counts as inline
isDataURLNever(img) == FALSE

\* imgTag.isDataURL
isDataURL(img) == HasPrefix(src(img), StrData)

\* imgTag.token; DataAtom goes with Data
token(img) == [Type |-> "StartTag", Data |-> "img", Attr |-> img.attr]

\* the loop of parseImgToken over token.Attr[1..n], as (srcIndex, attr)
RECURSIVE parseImgTokenLoop(_, _)
parseImgTokenLoop(attrs, n) ==
    IF n = 0 THEN ZeroImg
    ELSE LET prev == parseImgTokenLoop(attrs, n - 1)
             a == attrs[n]
         IN  IF a.Key \in supportedImgAttributes
             THEN [srcIndex |-> IF a.Key = "src" THEN Len(prev.attr) + 1
                                ELSE prev.srcIndex,
                   attr |-> Append(prev.attr, a)]
             ELSE prev

parseImgToken(tok) ==
    LET img == parseImgTokenLoop(tok.Attr, Len(tok.Attr))
    IN  IF img.srcIndex < 1
        THEN [img |-> ZeroImg,
              err |-> HandlerError(400, "no src attribute for <img/> tag", 0, <<>>, "nil")]
        ELSE [img |-> img, err |-> NilError]

(***************************************************************************)
(* URLs                                                                    *)
(***************************************************************************)
SchemeOther == {"0", "1", "2", "3", "4", "5", "6", "7", "8", "9", "+", "-", "."}

\* net/url getscheme, as used by url.Parse: the scheme is the run of
\* letters (digits, + - . after the first place) before the first ':'
RECURSIVE getscheme(_, _)
getscheme(s, i) ==
    IF i > Len(s) THEN [err |-> FALSE, scheme |-> <<>>]
    ELSE IF s[i] \in Letters THEN getscheme(s, i + 1)
    ELSE IF s[i] \in SchemeOther
         THEN IF i = 1 THEN [err |-> FALSE, scheme |-> <<>>] ELSE getscheme(s, i + 1)
    ELSE IF s[i] = ":"
         THEN IF i = 1 THEN [err |-> TRUE, scheme |-> <<>>]
              ELSE [err |-> FALSE, scheme |-> SubSeq(s, 1, i - 1)]
    ELSE [err |-> FALSE, scheme |-> <<>>]

\* a '%' that is not followed by two hex digits (url.Parse: invalid URL escape)
BadEscape(s) ==
    \E i \in 1..Len(s) :
        /\ s[i] = "%"
        /\ ~(i + 2 <= Len(s) /\ s[i + 1] \in HexDigits /\ s[i + 2] \in HexDigits)

\* the text before the first '/' of s
FirstSegment(s) == IF ContainsRune(s, "/") THEN SubSeq(s, 1, IndexOf(s, "/") - 1) ELSE s

\* the text of s before its first c (all of s when there is none) and the
\* text after it
Before(s, c) == IF ContainsRune(s, c) THEN SubSeq(s, 1, IndexOf(s, c) - 1) ELSE s
After(s, c) == IF ContainsRune(s, c) THEN SubSeq(s, IndexOf(s, c) + 1, Len(s)) ELSE <<>>

\* url.Parse(s) for strings without user information and without valid
\* escapes: the fragment is cut off at the first '#', the scheme read, the
\* query cut off at the first '?'; what is left is opaque (a scheme, no
\* leading '/'), or an authority after "//" and a path
urlParse(s) ==
    LET g == getscheme(s, 1)
        u == Before(s, "#")
        afterScheme == IF g.scheme # <<>> THEN SubSeq(u, Len(g.scheme) + 2, Len(u)) ELSE u
        rest == Before(afterScheme, "?")
        hasAuthority == HasPrefix(rest, <<"/", "/">>)
                            /\ (g.scheme # <<>> \/ ~HasPrefix(rest, <<"/", "/", "/">>))
        afterSlashes == SubSeq(rest, 3, Len(rest))
        Failed == [err |-> TRUE, Scheme |-> <<>>, Opaque |-> <<>>, Host |-> <<>>,
                   Path |-> <<>>, RawQuery |-> <<>>, Fragment |-> <<>>]
    IN  IF g.err \/ BadEscape(s) THEN Failed
        ELSE IF g.scheme = <<>> /\ ~HasPrefix(rest, <<"/">>) /\ ContainsRune(FirstSegment(rest), ":")
             THEN Failed
        ELSE IF g.scheme # <<>> /\ ~HasPrefix(rest, <<"/">>)
             THEN [err |-> FALSE, Scheme |-> g.scheme, Opaque |-> rest, Host |-> <<>>,
                   Path |-> <<>>, RawQuery |-> After(afterScheme, "?"),
                   Fragment |-> After(s, "#")]
        ELSE [err |-> FALSE, Scheme |-> g.scheme, Opaque |-> <<>>,
              Host |-> IF hasAuthority THEN Before(afterSlashes, "/") ELSE <<>>,
              Path |-> IF hasAuthority
                       THEN SubSeq(afterSlashes, Len(Before(afterSlashes, "/")) + 1,
                                   Len(afterSlashes))
                       ELSE rest,
              RawQuery |-> After(afterScheme, "?"),
              Fragment |-> After(s, "#")]

\* URL.String for a URL without user and opaque parts
URLString(u) ==
    (IF u.Scheme # <<>> THEN u.Scheme \o <<":">> ELSE <<>>)
    \o (IF u.Scheme # <<>> \/ u.Host # <<>> THEN <<"/", "/">> \o u.Host ELSE <<>>)
    \o (IF u.Path # <<>> /\ u.Path[1] # "/" /\ u.Host # <<>> THEN <<"/">> ELSE <<>>)
    \o u.Path
    \o (IF u.RawQuery # <<>> THEN <<"?">> \o u.RawQuery ELSE <<>>)
    \o (IF u.Fragment # <<>> THEN <<"#">> \o u.Fragment ELSE <<>>)

\* strings.Split(s, "/")
RECURSIVE Split(_)
Split(s) ==
    IF ContainsRune(s, "/")
    THEN <<SubSeq(s, 1, IndexOf(s, "/") - 1)>> \o Split(SubSeq(s, IndexOf(s, "/") + 1, Len(s)))
    ELSE <<s>>

\* strings.Join(parts, "/")
RECURSIVE Join(_)
Join(parts) ==
    IF parts = <<>> THEN <<>>
    ELSE IF Len(parts) = 1 THEN parts[1]
    ELSE parts[1] \o <<"/">> \o Join(Tail(parts))

\* getFolderURL trimming the path on the left only
getFolderURLTrimLeft(pageURL) ==
    LET path == TrimLeft(pageURL.Path, "/")
        split == Split(path)
    IN  [pageURL EXCEPT !.Fragment = <<>>,
                        !.RawQuery = <<>>,
                        !.Path = IF ~ContainsRune(path, "/") THEN <<>>
                                 ELSE Join(SubSeq(split, 1, Len(split) - 1))]

\* getFolderURL without pageURL.RawQuery = ""
getFolderURLKeepsQuery(pageURL) ==
    LET path == Trim(pageURL.Path, "/")
        split == Split(path)
    IN  [pageURL EXCEPT !.Fragment = <<>>,
                        !.RawQuery = @,
                        !.Path = IF ~ContainsRune(path, "/") THEN <<>>
                                 ELSE Join(SubSeq(split, 1, Len(split) - 1))]

getFolderURL(pageURL) ==
    LET path == Trim(pageURL.Path, "/")
        split == Split(path)
    IN  [pageURL EXCEPT !.Fragment = <<>>,
                        !.RawQuery = <<>>,
                        !.Path = IF ~ContainsRune(path, "/") THEN <<>>
                                 ELSE Join(SubSeq(split, 1, Len(split) - 1))]

\* the schemes the pattern of govalidator.IsURL lets a string begin with
URLSchemas == {StrHttp \o <<":", "/", "/">>, StrHttp \o <<"s", ":", "/", "/">>,
               <<"f", "t", "p", ":", "/", "/">>}

HostChars == Letters \cup HexDigits \cup {".", "-"}

\* the pattern rxURL of govalidator.IsURL, for strings without user
\* information, port and IP address: an optional schema, a host name of
\* letters and digits joined by single '.' or '-', and then nothing or a
\* '/', '?' or '#' followed by anything but white space
rxURLMatch(str) ==
    LET schema == {p \in URLSchemas : HasPrefix(str, p)}
        rest == IF schema = {} THEN str
                ELSE SubSeq(str, Len(CHOOSE p \in schema : TRUE) + 1, Len(str))
        stops == {i \in 1..Len(rest) : rest[i] \in {"/", "?", "#"}}
        host == IF stops = {} THEN rest
                ELSE SubSeq(rest, 1, (CHOOSE i \in stops : \A j \in stops : i <= j) - 1)
    IN  /\ host # <<>>
        /\ \A i \in 1..Len(host) : host[i] \in HostChars
        /\ host[1] \notin {".", "-"}
        /\ host[Len(host)] \notin {".", "-"}
        /\ \A i \in 1..(Len(host) - 1) :
               ~(host[i] \in {".", "-"} /\ host[i + 1] \in {".", "-"})
        /\ ~ContainsRune(str, " ")

\* govalidator.IsURL: the length, no leading '.', url.Parse, a host that
\* does not begin with '.', a path with a '.' when there is no host, and
\* the pattern (u is the parsed URL, parsed once)
IsURL(str) ==
    /\ Len(str) > 3
    /\ ~HasPrefix(str, <<".">>)
    /\ \E u \in {urlParse(str)} :
           /\ ~u.err
           /\ ~HasPrefix(u.Host, <<".">>)
           /\ ~(u.Host = <<>> /\ u.Path # <<>> /\ ~ContainsRune(u.Path, "."))
    /\ rxURLMatch(str)

\* getImgURL with a root-relative reference appended to the folder URL
getImgURLRootUnderFolder(s, folderURL) ==
    LET parsed == urlParse(s)
        folderStr == TrimRight(URLString(folderURL), "/")
        Checked(res) ==
            IF \A str \in {res} : ~IsURL(str)
            THEN [kind |-> "err", url |-> <<>>,
                  err |-> HandlerError(400, "invalid img tag src URL: is not valid URL",
                                       0, <<>>, "nil")]
            ELSE [kind |-> "ok", url |-> res, err |-> NilError]
        Panic == [kind |-> "panic", url |-> <<>>, err |-> NilError]
    IN  IF parsed.err
        THEN [kind |-> "err", url |-> <<>>,
              err |-> HandlerError(400, "invalid img tag src URL: url parse",
                                   0, <<>>, "url.Parse")]
        ELSE IF parsed.Scheme # <<>> THEN Checked(s)
        ELSE IF HasPrefix(s, <<"/", "/">>) THEN Checked(StrHttp \o <<":">> \o s)
        ELSE IF s = <<>> THEN Panic
        ELSE IF s[1] = "/" THEN Checked(folderStr \o s)
        ELSE IF folderStr = <<>> THEN Panic
        ELSE IF folderStr[Len(folderStr)] = "/" THEN Checked(folderStr \o s)
        ELSE Checked(folderStr \o <<"/">> \o s)

\* getImgURL joining folder and reference without trimming the folder
getImgURLJoinNoTrim(s, folderURL) ==
    LET parsed == urlParse(s)
        folderStr == URLString(folderURL)
        Checked(res) ==
            IF \A str \in {res} : ~IsURL(str)
            THEN [kind |-> "err", url |-> <<>>,
                  err |-> HandlerError(400, "invalid img tag src URL: is not valid URL",
                                       0, <<>>, "nil")]
            ELSE [kind |-> "ok", url |-> res, err |-> NilError]
        Panic == [kind |-> "panic", url |-> <<>>, err |-> NilError]
    IN  IF parsed.err
        THEN [kind |-> "err", url |-> <<>>,
              err |-> HandlerError(400, "invalid img tag src URL: url parse",
                                   0, <<>>, "url.Parse")]
        ELSE IF parsed.Scheme # <<>> THEN Checked(s)
        ELSE IF HasPrefix(s, <<"/", "/">>) THEN Checked(StrHttp \o <<":">> \o s)
        ELSE IF s = <<>> THEN Panic
        ELSE IF s[1] = "/"
             THEN Checked(URLString([folderURL EXCEPT !.Path = s]))
        ELSE IF folderStr = <<>> THEN Panic
        ELSE Checked(folderStr \o <<"/">> \o s)

\* getImgURL without the branch for absolute references
getImgURLNoAbsolute(s, folderURL) ==
    LET parsed == urlParse(s)
        folderStr == TrimRight(URLString(folderURL), "/")
        Checked(res) ==
            IF \A str \in {res} : ~IsURL(str)
            THEN [kind |-> "err", url |-> <<>>,
                  err |-> HandlerError(400, "invalid img tag src URL: is not valid URL",
                                       0, <<>>, "nil")]
            ELSE [kind |-> "ok", url |-> res, err |-> NilError]
        Panic == [kind |-> "panic", url |-> <<>>, err |-> NilError]
    IN  IF parsed.err
        THEN [kind |-> "err", url |-> <<>>,
              err |-> HandlerError(400, "invalid img tag src URL: url parse",
                                   0, <<>>, "url.Parse")]
        ELSE IF HasPrefix(s, <<"/", "/">>) THEN Checked(StrHttp \o <<":">> \o s)
        ELSE IF s = <<>> THEN Panic
        ELSE IF s[1] = "/"
             THEN Checked(URLString([folderURL EXCEPT !.Path = s]))
        ELSE IF folderStr = <<>> THEN Panic
        ELSE IF folderStr[Len(folderStr)] = "/" THEN Checked(folderStr \o s)
        ELSE Checked(folderStr \o <<"/">> \o s)

\* getImgURL: kind is "ok" (url returned, nil error), "err" (error returned)
\* or "panic" (index out of range on an empty string)
getImgURL(s, folderURL) ==
    LET parsed == urlParse(s)
        folderStr == TrimRight(URLString(folderURL), "/")
        Checked(res) ==
            IF \A str \in {res} : ~IsURL(str)
            THEN [kind |-> "err", url |-> <<>>,
                  err |-> HandlerError(400, "invalid img tag src URL: is not valid URL",
                                       0, <<>>, "nil")]
            ELSE [kind |-> "ok", url |-> res, err |-> NilError]
        Panic == [kind |-> "panic", url |-> <<>>, err |-> NilError]
    IN  IF parsed.err
        THEN [kind |-> "err", url |-> <<>>,
              err |-> HandlerError(400, "invalid img tag src URL: url parse",
                                   0, <<>>, "url.Parse")]
        ELSE IF parsed.Scheme # <<>> THEN Checked(s)
        ELSE IF HasPrefix(s, <<"/", "/">>) THEN Checked(StrHttp \o <<":">> \o s)
        ELSE IF s = <<>> THEN Panic
        ELSE IF s[1] = "/"
             THEN Checked(URLString([folderURL EXCEPT !.Path = s]))
        ELSE IF folderStr = <<>> THEN Panic
        ELSE IF folderStr[Len(folderStr)] = "/" THEN Checked(folderStr \o s)
        ELSE Checked(folderStr \o <<"/">> \o s)

(***************************************************************************)
(* base64                                                                  *)
(***************************************************************************)
\* base64.StdEncoding alphabet
encodeStd ==
    <<"A", "B", "C", "D", "E", "F", "G", "H", "I", "J", "K", "L", "M",
      "N", "O", "P", "Q", "R", "S", "T", "U", "V", "W", "X", "Y", "Z",
      "a", "b", "c", "d", "e", "f", "g", "h", "i", "j", "k", "l", "m",
      "n", "o", "p", "q", "r", "s", "t", "u", "v", "w", "x", "y", "z",
      "0", "1", "2", "3", "4", "5", "6", "7", "8", "9", "+", "/">>

\* the four characters of one full group of three bytes
EncodeGroup(b1, b2, b3) ==
    <<encodeStd[(b1 \div 4) + 1],
      encodeStd[((b1 % 4) * 16 + (b2 \div 16)) + 1],
      encodeStd[((b2 % 16) * 4 + (b3 \div 64)) + 1],
      encodeStd[(b3 % 64) + 1]>>

\* what the stream encoder has written to its underlying buffer after
\* io.Copy wrote body to it: the full groups; a remainder of one or two
\* bytes stays in the encoder until Close
RECURSIVE EncoderWritten(_)
EncoderWritten(body) ==
    IF Len(body) < 3 THEN <<>>
    ELSE EncodeGroup(body[1], body[2], body[3]) \o EncoderWritten(SubSeq(body, 4, Len(body)))

\* the contents of dataURLBuf when dataURLBuf.String() is evaluated: the
\* deferred w.Close() has not run yet at that point
dataURL(ct, body) == StrData \o ct \o StrBase64 \o EncoderWritten(body)

\* a new tag made of the src attribute alone
fetchedImgSrcOnly(img, ct, body) ==
    [srcIndex |-> 1, attr |-> <<[Key |-> "src", Val |-> dataURL(ct, body)]>>]

\* the copy of img with its src replaced (resImg / opImg)
fetchedImg(img, ct, body) == setSrc(img, dataURL(ct, body))

(***************************************************************************)
(* Inputs: the document, the HTTP responses, the context                   *)
(***************************************************************************)
Attr(k, v) == [Key |-> k, Val |-> v]

\* html.Token values the tokenizer yields before its ErrorToken
TokA == [Type |-> "StartTag", Data |-> "a", Attr |-> <<Attr("href", <<"/">>)>>]
TokData == [Type |-> "SelfClosingTag", Data |-> "img",
            Attr |-> <<Attr("src", StrData \o <<",">>)>>]
TokNoSrc == [Type |-> "StartTag", Data |-> "img", Attr |-> <<Attr("alt", <<"t">>)>>]
TokEmpty == [Type |-> "StartTag", Data |-> "img", Attr |-> <<Attr("src", <<>>)>>]
TokBad == [Type |-> "StartTag", Data |-> "img", Attr |-> <<Attr("src", <<"%">>)>>]

\* the references of the images to fetch: relative, root-relative and
\* protocol-relative
ImgSrcs == <<(<<"a">>), (<<"/", "b">>), (<<"/", "/", "x", "/", "c">>)>>

\* the image to fetch at place i of a document: places differ in their
\* reference and alternate between the start-tag and the self-closing form
TokImg(i) ==
    [Type |-> IF i % 2 = 1 THEN "StartTag" ELSE "SelfClosingTag",
     Data |-> "img",
     Attr |-> <<Attr("id", <<"i">>), Attr("src", ImgSrcs[((i - 1) % Len(ImgSrcs)) + 1]),
                Attr("alt", <<"t">>)>>]

\* the tokens that can stand at place i
DocTokens(i) == {TokA, TokImg(i), TokData, TokNoSrc, TokEmpty, TokBad}

\* the token sequences of at most MaxDoc tokens
Docs ==
    UNION {{d \in [1..n -> UNION {DocTokens(i) : i \in 1..n}] :
               \A i \in 1..n : d[i] \in DocTokens(i)} : n \in 0..MaxDoc}

\* how the tokenizer ends: io.EOF or another error
Terminals == {"EOF", "ERR"}

\* the page URL stored in the context
PageURL == [Scheme |-> StrHttp, Host |-> <<"x">>, Path |-> <<"/", "d", "/", "p">>,
            RawQuery |-> <<"q">>, Fragment |-> <<>>]

\* outcomes of one cxtAwareGet followed by reading the body
Resp(kind, status, ct, body, copyErr) ==
    [kind |-> kind, status |-> status, ct |-> ct, body |-> body, copyErr |-> copyErr]

\* the request fails: no response (cause "net"), or the context is done (cause "ctx")
TransportFailure(cause) == Resp(cause, 0, <<>>, <<>>, FALSE)

NoResp == Resp("none", 0, <<>>, <<>>, FALSE)

Responses ==
    {TransportFailure("net"),
     Resp("resp", 404, <<>>, <<>>, FALSE),
     Resp("resp", 500, StrImage, <<>>, FALSE),
     Resp("resp", 200, <<" ">>, <<>>, FALSE),
     Resp("resp", 200, <<"t">>, <<>>, FALSE),
     Resp("resp", 200, StrImage, <<77, 97, 110, 33>>, TRUE),
     Resp("resp", 200, <<" ">> \o StrImage, <<77, 97, 110, 33>>, FALSE)}

\* the responses a GET can see: once the context is cancelled the request
\* fails with ctx.Err()
ResponsesWhen(isCancelled) ==
    IF isCancelled THEN {TransportFailure("ctx")} ELSE Responses

FetcherKinds == {"plain", "backoff"}

(***************************************************************************)
(* Fetchers                                                                *)
(***************************************************************************)
\* what a worker hands off: ch is "res" (imgc), "err" (errc) or "none"
Outcome(ch, img, err) == [ch |-> ch, img |-> img, err |-> err]

\* fetchImage with the send of the missing content-type case forgotten
fetchImageNoSendOnMissingCT(img, imgURL, resp) ==
    IF resp.kind # "resp"
    THEN Outcome("err", ZeroImg, HandlerError(500, "can't fetch image", 0, imgURL, resp.kind))
    ELSE IF resp.status # 200
    THEN Outcome("err", ZeroImg,
                 HandlerError(400, "expected status code 200", resp.status, imgURL, "nil"))
    ELSE IF TrimSpace(resp.ct) = <<>>
    THEN Outcome("none", ZeroImg, NilError)
    ELSE IF ~HasPrefix(TrimSpace(resp.ct), StrImage)
    THEN Outcome("err", ZeroImg,
                 HandlerError(400, "not image content-type on image", 0, imgURL, "nil"))
    ELSE IF resp.copyErr
    THEN Outcome("err", ZeroImg,
                 HandlerError(400, "image fetching error", 0, imgURL, "io.Copy"))
    ELSE Outcome("res", fetchedImg(img, TrimSpace(resp.ct), resp.body), NilError)

\* fetchImage with the Content-Type checks before the status check
fetchImageChecksTypeFirst(img, imgURL, resp) ==
    IF resp.kind # "resp"
    THEN Outcome("err", ZeroImg, HandlerError(500, "can't fetch image", 0, imgURL, resp.kind))
    ELSE IF TrimSpace(resp.ct) = <<>>
    THEN Outcome("err", ZeroImg,
                 HandlerError(400, "no content-type on image", 0, imgURL, "nil"))
    ELSE IF ~HasPrefix(TrimSpace(resp.ct), StrImage)
    THEN Outcome("err", ZeroImg,
                 HandlerError(400, "not image content-type on image", 0, imgURL, "nil"))
    ELSE IF resp.status # 200
    THEN Outcome("err", ZeroImg,
                 HandlerError(400, "expected status code 200", resp.status, imgURL, "nil"))
    ELSE IF resp.copyErr
    THEN Outcome("err", ZeroImg,
                 HandlerError(400, "image fetching error", 0, imgURL, "io.Copy"))
    ELSE Outcome("res", fetchedImg(img, TrimSpace(resp.ct), resp.body), NilError)

\* the goroutine of fetchImage after cxtAwareGet answered resp
fetchImage(img, imgURL, resp) ==
    IF resp.kind # "resp"
    THEN Outcome("err", ZeroImg, HandlerError(500, "can't fetch image", 0, imgURL, resp.kind))
    ELSE IF resp.status # 200
    THEN Outcome("err", ZeroImg,
                 HandlerError(400, "expected status code 200", resp.status, imgURL, "nil"))
    ELSE IF TrimSpace(resp.ct) = <<>>
    THEN Outcome("err", ZeroImg,
                 HandlerError(400, "no content-type on image", 0, imgURL, "nil"))
    ELSE IF ~HasPrefix(TrimSpace(resp.ct), StrImage)
    THEN Outcome("err", ZeroImg,
                 HandlerError(400, "not image content-type on image", 0, imgURL, "nil"))
    ELSE IF resp.copyErr
    THEN Outcome("err", ZeroImg,
                 HandlerError(400, "image fetching error", 0, imgURL, "io.Copy"))
    ELSE Outcome("res", fetchedImg(img, TrimSpace(resp.ct), resp.body), NilError)

\* the retry signal of operation
NeedRetry == HandlerError(500, "need retry", 0, <<>>, "nil")

\* operation asking for a retry on every status from 400 on
operationRetryFrom400(img, imgURL, resp) ==
    LET Ret(ret, opErr, opImg) == [ret |-> ret, opErr |-> opErr, opImg |-> opImg]
    IN  IF resp.kind # "resp"
        THEN Ret(NilError, HandlerError(500, "can't fetch image", 0, imgURL, resp.kind),
                 ZeroImg)
        ELSE IF resp.status >= 400
        THEN Ret([code |-> 500, desc |-> "need retry", status |-> 0, url |-> <<>>,
                  cause |-> "nil"], NilError, ZeroImg)
        ELSE IF resp.status # 200
        THEN Ret(NilError,
                 HandlerError(400, "expected status code 200", resp.status, imgURL, "nil"),
                 ZeroImg)
        ELSE IF TrimSpace(resp.ct) = <<>>
        THEN Ret(NilError, HandlerError(400, "no content-type on image", 0, imgURL, "nil"),
                 ZeroImg)
        ELSE IF ~HasPrefix(TrimSpace(resp.ct), StrImage)
        THEN Ret(NilError,
                 HandlerError(400, "not image content-type on image", 0, imgURL, "nil"),
                 ZeroImg)
        ELSE IF resp.copyErr
        THEN Ret(NilError, HandlerError(400, "image fetching error", 0, imgURL, "io.Copy"),
                 ZeroImg)
        ELSE Ret(NilError, NilError, fetchedImg(img, TrimSpace(resp.ct), resp.body))

\* one run of the closure operation of backoffImageFetcher.fetchImage:
\* ret is its return value, opErr and opImg what it assigned (opErr left
\* unchanged is NilError, opImg left nil is ZeroImg)
operation(img, imgURL, resp) ==
    LET Ret(ret, opErr, opImg) == [ret |-> ret, opErr |-> opErr, opImg |-> opImg]
    IN  IF resp.kind # "resp"
        THEN Ret(NilError, HandlerError(500, "can't fetch image", 0, imgURL, resp.kind),
                 ZeroImg)
        ELSE IF resp.status >= 500
        THEN Ret(NeedRetry, NilError, ZeroImg)
        ELSE IF resp.status # 200
        THEN Ret(NilError,
                 HandlerError(400, "expected status code 200", resp.status, imgURL, "nil"),
                 ZeroImg)
        ELSE IF TrimSpace(resp.ct) = <<>>
        THEN Ret(NilError, HandlerError(400, "no content-type on image", 0, imgURL, "nil"),
                 ZeroImg)
        ELSE IF ~HasPrefix(TrimSpace(resp.ct), StrImage)
        THEN Ret(NilError,
                 HandlerError(400, "not image content-type on image", 0, imgURL, "nil"),
                 ZeroImg)
        ELSE IF resp.copyErr
        THEN Ret(NilError, HandlerError(400, "image fetching error", 0, imgURL, "io.Copy"),
                 ZeroImg)
        ELSE Ret(NilError, NilError, fetchedImg(img, TrimSpace(resp.ct), resp.body))

\* ExponentialBackOff.NextBackOff answers Stop once the elapsed time is
\* over the maximum elapsed time
NextBackOffStop(elapsed) == elapsed > MaxElapsedTicks

\* the delivery with no send for an attempt that set opErr
backoffDeliverDropsOpErr(err, opErr, opImg, img) ==
    IF err # NilError THEN Outcome("err", ZeroImg, err)
    ELSE IF opErr # NilError THEN Outcome("none", ZeroImg, NilError)
    ELSE Outcome("res", img, NilError)

\* the delivery sending opErr where Retry gave up with its own error
backoffDeliverSendsOpErr(err, opErr, opImg, img) ==
    IF err # NilError THEN Outcome("err", ZeroImg, opErr)
    ELSE IF opErr # NilError THEN Outcome("err", ZeroImg, err)
    ELSE Outcome("res", img, NilError)

\* the delivery after backoff.Retry returned err
backoffDeliver(err, opErr, opImg, img) ==
    IF err # NilError THEN Outcome("err", ZeroImg, err)
    ELSE IF opErr # NilError THEN Outcome("err", ZeroImg, err)
    ELSE Outcome("res", img, NilError)

(***************************************************************************)
(* State                                                                   *)
(***************************************************************************)
VARIABLES
    input,        \* what the run is given: doc, term, fetcher, ctxHasURL, pageURL
    spc,          \* scanner goroutine: "run", "sendImg", "sendErr", "done"
    spos,         \* position of the next token the tokenizer yields
    sval,         \* the scanner's img: what parseImgToken returned, handed off at imgc <- img
    serr,         \* the error the scanner hands off at errc <- err
    imgcClosed,   \* close(imgc) has run
    tokenParseCall, \* history: calls of the token parser made by the scanner
    emitted,      \* history: the tags whose send imgc <- img has returned, in order
    pc,           \* extractImages: "start", "loop", "drain", "returned", "panicked"
    parseOpen,    \* parseResChan != nil (parseErrChan is set to nil with it)
    await,        \* number of fetch routines to await
    result,       \* the local slice result
    folderURL,    \* the local folderURL
    ret,          \* what the call returns: res, err and exit ("none", "return", "panic")
    cancelled,    \* the derived context is done: its cancel() has run or the caller's context was cancelled
    fetchClosed,  \* close(fetchResChan); close(fetchErrChan) have run
    workers,      \* the fetch goroutines, in dispatch order
    handled,      \* what HandleLogic returns: resp, err and exit ("none", "return", "panic")
    req,          \* the query of the request HandleLogic is called with, as (name, value) pairs
    urlParam,     \* what extractURLParam returned to HandleLogic: url, err and exit
    ctx,          \* the context extractImages is called with: the values under its keys
    served        \* a call of ErrorLogger.HandleError: its err, the resp returned, exit

vars == <<input, spc, spos, sval, serr, imgcClosed, tokenParseCall, emitted, pc, parseOpen, await, result,
          folderURL, ret, cancelled, fetchClosed, workers, handled, req, urlParam, ctx,
          served>>

scanVars == <<spc, spos, sval, serr, imgcClosed, tokenParseCall, emitted>>

reqVars == <<req, urlParam, ctx, served>>

\* a []imgTag return value; a slice that was never appended to is nil
NilResult == [isNil |-> TRUE, tags |-> <<>>]
SliceResult(tags) == [isNil |-> tags = <<>>, tags |-> tags]

NoURL == [Scheme |-> <<>>, Host |-> <<>>, Path |-> <<>>, RawQuery |-> <<>>, Fragment |-> <<>>]

\* a nil *Response
NoResponse == [isNil |-> TRUE, StatusCode |-> 0, Body |-> <<>>]

(***************************************************************************)
(* Contexts.  A context is the record of the values under the three keys   *)
(* of context.go; a value carries its dynamic type.                        *)
(***************************************************************************)
NoValue == [type |-> "nil", url |-> NoURL]
LoggerValue == [type |-> "Logger", url |-> NoURL]
ClientValue == [type |-> "*http.Client", url |-> NoURL]
URLValue(u) == [type |-> "*url.URL", url |-> u]

\* context.Background()
Background == [CtxLoggerKey |-> NoValue, CtxHTTPClientKey |-> NoValue,
               ctxURLParamKey |-> NoValue]

\* newContext: the logger and the client are stored unless the context
\* holds one already, the URL is stored under ctxURLParamKey
newContext(c, log, client, u) ==
    LET c1 == IF c.CtxLoggerKey.type = "Logger" THEN c
              ELSE [c EXCEPT !.CtxLoggerKey = log]
        c2 == IF c1.CtxHTTPClientKey.type = "*http.Client" THEN c1
              ELSE [c1 EXCEPT !.CtxHTTPClientKey = client]
    IN  [c2 EXCEPT !.ctxURLParamKey = URLValue(u)]

\* getURLParam: the value under CtxHTTPClientKey, asserted to be a *url.URL;
\* a panic when it is not one
getURLParam(c) ==
    IF c.CtxHTTPClientKey.type = "*url.URL"
    THEN [exit |-> "return", url |-> c.CtxHTTPClientKey.url]
    ELSE [exit |-> "panic", url |-> NoURL]

\* the context of a run that starts at the call of extractImages: with
\* the page URL where getURLParam reads it, or as newContext leaves it
CallContext(i) ==
    IF i.ctxHasURL
    THEN [CtxLoggerKey |-> LoggerValue, CtxHTTPClientKey |-> URLValue(i.pageURL),
          ctxURLParamKey |-> NoValue]
    ELSE newContext(Background, LoggerValue, ClientValue, i.pageURL)

\* HandleError has not been called
NotServed == [err |-> NilError, resp |-> NoResponse, exit |-> "none"]

\* extractURLParam has not returned
NoParam == [url |-> NoURL, isNil |-> TRUE, err |-> NilError, exit |-> "none"]

\* the runs over whole documents, for one page
RunInputs ==
    [doc : Docs, term : Terminals, fetcher : FetcherKinds, ctxHasURL : BOOLEAN,
     pageURL : {PageURL}]

\* the attributes an img element of the single-element runs is made of
AttrChoices ==
    {Attr("src", <<"a">>), Attr("src", <<"/", "b">>), Attr("alt", <<"t">>),
     Attr("id", <<"i">>)}

\* img elements in both forms with at most MaxAttrs attributes
ElementTokens ==
    {[Type |-> ty, Data |-> "img", Attr |-> as] :
        ty \in {"StartTag", "SelfClosingTag"},
        as \in UNION {[1..n -> AttrChoices] : n \in 0..MaxAttrs}}

\* references: root-relative, protocol-relative, relative, absolute
SrcRefs ==
    {<<"/">>, <<"/", "b">>, <<"/", "b", "/", "c">>, <<"/", "/", "x", "/", "c">>,
     <<"b", "/", "c">>, StrHttp \o <<":", "/", "/", "y", "/", "c">>, <<"a", ":", "b">>}

\* img elements with one of the references as their only attribute
RefTokens ==
    {[Type |-> "StartTag", Data |-> "img", Attr |-> <<Attr("src", r)>>] : r \in SrcRefs}

\* a page of host x with the given path
PageAt(path) ==
    [Scheme |-> StrHttp, Host |-> <<"x">>, Path |-> path, RawQuery |-> <<>>,
     Fragment |-> <<>>]

\* pages in a folder, in a folder of a folder, and at the root of a host;
\* paths written with a trailing '/' and with empty segments
PageURLs ==
    {PageURL,
     PageAt(<<"/", "d", "/", "p", "/">>),
     PageAt(<<"/", "d", "/", "/", "p">>),
     PageAt(<<"/", "d", "/", "/", "/", "p">>),
     PageAt(<<"/">>),
     [Scheme |-> StrHttp \o <<"s">>, Host |-> <<"y">>,
      Path |-> <<"/", "d", "/", "e", "/", "p">>, RawQuery |-> <<>>, Fragment |-> <<"f">>],
     [Scheme |-> StrHttp, Host |-> <<"y">>, Path |-> <<"/", "p">>,
      RawQuery |-> <<>>, Fragment |-> <<>>]}

\* the runs over documents of a single img element
ElementInputs ==
    [doc : {<<t>> : t \in ElementTokens}, term : Terminals,
     fetcher : FetcherKinds, ctxHasURL : {TRUE}, pageURL : {PageURL}]
    \union [doc : {<<t>> : t \in RefTokens}, term : Terminals,
            fetcher : FetcherKinds, ctxHasURL : {TRUE}, pageURL : PageURLs]

\* the locals of a call of extractImages that has not begun
StartPipeline ==
    /\ spc = "run"
    /\ spos = 1
    /\ sval = ZeroImg
    /\ serr = NilError
    /\ imgcClosed = FALSE
    /\ tokenParseCall = 0
    /\ emitted = <<>>
    /\ parseOpen = TRUE
    /\ await = 0
    /\ result = <<>>
    /\ folderURL = NoURL
    /\ ret = [res |-> NilResult, err |-> NilError, exit |-> "none"]
    /\ cancelled = FALSE
    /\ fetchClosed = FALSE
    /\ workers = <<>>
    /\ handled = [resp |-> NoResponse, err |-> NilError, exit |-> "none"]

\* the state when extractImages is called with the context of the run
Start ==
    /\ StartPipeline
    /\ pc = "start"
    /\ req = <<>>
    /\ urlParam = NoParam
    /\ ctx = CallContext(input)
    /\ served = NotServed

Init == input \in RunInputs /\ Start

(***************************************************************************)
(* The scanner goroutine of parseImage                                     *)
(***************************************************************************)
\* only the start-tag form is taken for an img element
IsImgTokenStartOnly(tok) == tok.Type = "StartTag" /\ tok.Data = "img"

\* every start or self-closing tag is taken for an img element
IsImgTokenByType(tok) == tok.Type \in {"StartTag", "SelfClosingTag"}

IsImgToken(tok) ==
    /\ tok.Type \in {"StartTag", "SelfClosingTag"}
    /\ tok.Data = "img"

\* the tokenizer loop skips every token that is not an img start or
\* self-closing tag: the position of the first img token from pos on, or
\* Len(doc) + 1 for the ErrorToken
RECURSIVE NextStop(_, _)
NextStop(doc, pos) ==
    IF pos > Len(doc) \/ IsImgToken(doc[pos]) THEN pos ELSE NextStop(doc, pos + 1)

\* an ErrorToken of any kind ends the scan without an error
EndsCleanAlways(term) == TRUE

\* z.Err() == io.EOF at the ErrorToken: the input ended, nothing to report
EndsClean(term) == term = "EOF"

\* the scanner, started by extractImages, runs from its current token to
\* its next send or to its return
ScanStep ==
    /\ pc # "request"
    /\ spc = "run"
    /\ LET p == NextStop(input.doc, spos)
       IN  IF p > Len(input.doc)
           THEN IF ~EndsClean(input.term)
                THEN /\ spc' = "sendErr"
                     /\ serr' = TokenizerError
                     /\ spos' = p
                     /\ UNCHANGED <<sval, imgcClosed, tokenParseCall>>
                ELSE /\ spc' = "done"
                     /\ imgcClosed' = TRUE
                     /\ spos' = p
                     /\ UNCHANGED <<sval, serr, tokenParseCall>>
           ELSE LET parsed == parseImgToken(input.doc[p])
                IN  /\ tokenParseCall' = tokenParseCall + 1
                    /\ spos' = p
                    /\ sval' = parsed.img
                    /\ IF parsed.err # NilError
                       THEN /\ spc' = "sendErr"
                            /\ serr' = parsed.err
                            /\ UNCHANGED imgcClosed
                       ELSE /\ spc' = "sendImg"
                            /\ UNCHANGED <<serr, imgcClosed>>
    /\ UNCHANGED emitted
    /\ UNCHANGED <<input, handled, reqVars, pc, parseOpen, await, result, folderURL, ret, cancelled,
                   fetchClosed, workers>>

\* the scanner's side of a received tag: imgc <- img returns, the loop goes on
ScannerSentImg ==
    /\ spc' = "run"
    /\ spos' = spos + 1
    /\ emitted' = Append(emitted, sval)
    /\ UNCHANGED <<sval, serr, imgcClosed, tokenParseCall>>

\* the scanner's side of a received error: errc <- err returns, the
\* goroutine returns and its deferred close(imgc) runs
ScannerSentErr ==
    /\ spc' = "done"
    /\ imgcClosed' = TRUE
    /\ UNCHANGED <<spos, sval, serr, tokenParseCall, emitted>>

(***************************************************************************)
(* Fetch workers                                                           *)
(***************************************************************************)
NoOutcome == Outcome("none", ZeroImg, NilError)

\* a fetcher called without "go": the call returns when the fetch routine
\* has reached its send
NewWorkerNoGo(kind, img, imgURL) ==
    [kind |-> kind, img |-> img, url |-> imgURL, pc |-> "send",
     out |-> Outcome("err", ZeroImg, HandlerError(500, "Can't get image", 0, imgURL, "net")),
     attempts |-> 0, elapsed |-> 0, last |-> NoResp, opErr |-> NilError,
     opImg |-> ZeroImg, sentRes |-> 0, sentErr |-> 0]

\* the goroutine started by imp.fetcher.fetchImage(ctx, img, imgURL, ...)
NewWorker(kind, img, imgURL) ==
    [kind |-> kind, img |-> img, url |-> imgURL, pc |-> "get", out |-> NoOutcome,
     attempts |-> 0, elapsed |-> 0, last |-> NoResp, opErr |-> NilError,
     opImg |-> ZeroImg, sentRes |-> 0, sentErr |-> 0]

Workers == 1..Len(workers)

\* a worker that reached its send statement waits there; one that ran to
\* its end without a send is done
AfterOutcome(out) == IF out.ch = "none" THEN "done" ELSE "send"

\* fetchImage: the GET, the checks and the copy, up to the send
FetchGet(w) ==
    /\ workers[w].kind = "plain"
    /\ workers[w].pc = "get"
    /\ \E resp \in ResponsesWhen(cancelled) :
         LET out == fetchImage(workers[w].img, workers[w].url, resp)
         IN  workers' = [workers EXCEPT ![w].out = out,
                                        ![w].last = resp,
                                        ![w].attempts = 1,
                                        ![w].pc = AfterOutcome(out)]
    /\ UNCHANGED <<input, handled, reqVars, scanVars, pc, parseOpen, await, result, folderURL, ret,
                   cancelled, fetchClosed>>

\* backoffImageFetcher.fetchImage: one call of operation by backoff.Retry,
\* then either the delivery or, when operation asked for a retry and
\* NextBackOff did not answer Stop, time.Sleep(next), during which the
\* backoff clock advances, before the next call
BackoffOperation(w) ==
    /\ workers[w].kind = "backoff"
    /\ workers[w].pc = "get"
    /\ \E resp \in ResponsesWhen(cancelled) :
         LET op == operation(workers[w].img, workers[w].url, resp)
             stop == op.ret = NilError \/ NextBackOffStop(workers[w].elapsed)
             out == IF stop
                    THEN backoffDeliver(op.ret, op.opErr, op.opImg, workers[w].img)
                    ELSE NoOutcome
         IN  workers' = [workers EXCEPT ![w].out = out,
                                        ![w].last = resp,
                                        ![w].attempts = @ + 1,
                                        ![w].elapsed = IF stop THEN @ ELSE @ + 1,
                                        ![w].opErr = op.opErr,
                                        ![w].opImg = op.opImg,
                                        ![w].pc = IF stop THEN AfterOutcome(out)
                                                  ELSE "get"]
    /\ UNCHANGED <<input, handled, reqVars, scanVars, pc, parseOpen, await, result, folderURL, ret,
                   cancelled, fetchClosed>>

\* worker w waits in imgc <- ... / errc <- ...
Sending(w, ch) == workers[w].pc = "send" /\ workers[w].out.ch = ch

\* the worker's side of a received value: its send returns and the goroutine
\* ends, its locals are gone; sentRes and sentErr count what it handed off,
\* and out keeps the tag it delivered on imgc
WorkerSent(w) ==
    workers' = [workers EXCEPT ![w].pc = "done",
                               ![w].out = IF @.ch = "res" THEN @ ELSE NoOutcome,
                               ![w].last = NoResp,
                               ![w].opErr = NilError,
                               ![w].opImg = ZeroImg,
                               ![w].attempts = 0,
                               ![w].elapsed = 0,
                               ![w].sentRes = @ + (IF workers[w].out.ch = "res" THEN 1 ELSE 0),
                               ![w].sentErr = @ + (IF workers[w].out.ch = "err" THEN 1 ELSE 0)]

(***************************************************************************)
(* extractImages                                                           *)
(***************************************************************************)
\* the received tag is put in front of the tags accepted so far
prependResult(res, img) == <<img>> \o res

\* result = append(result, img)
appendResult(res, img) == Append(res, img)

\* "return result, err": the tags accepted so far go out with the error
ReturnPartialOnError(res, err) == [res |-> SliceResult(res), err |-> err, exit |-> "return"]

\* "return nil, err" of the select loop
ReturnOnError(res, err) == [res |-> NilResult, err |-> err, exit |-> "return"]

\* "return result, nil" after the loop
ReturnResult(res) == [res |-> SliceResult(res), err |-> NilError, exit |-> "return"]

\* a panic unwinds the call: nothing is returned
Panics == [res |-> NilResult, err |-> NilError, exit |-> "panic"]

\* a deferred function that cancels and closes without draining
DrainNothing(a) == 0

\* the number of completions the deferred function receives before it
\* closes the fetch channels: for ; await > 0; await--
DrainCount(a) == a

\* where the call is once the deferred function has finished
Final(r) == IF r.exit = "panic" THEN "panicked" ELSE "returned"

\* a deferred function that drains and closes without cancelling first
LeaveWithoutCancel(r, a) ==
    /\ ret' = r
    /\ await' = a
    /\ UNCHANGED cancelled
    /\ IF DrainCount(a) = 0
       THEN pc' = Final(r) /\ fetchClosed' = TRUE
       ELSE pc' = "drain" /\ fetchClosed' = FALSE

\* leaving the body of extractImages with a fetch routines outstanding:
\* the deferred function cancels, then drains or, with nothing to drain,
\* closes the fetch channels and the call is over
Leave(r, a) ==
    /\ ret' = r
    /\ await' = a
    /\ cancelled' = TRUE
    /\ IF DrainCount(a) = 0
       THEN pc' = Final(r) /\ fetchClosed' = TRUE
       ELSE pc' = "drain" /\ fetchClosed' = FALSE

\* a select loop without a condition: it goes on with nothing left to receive
ContinueForever(res, a, open) ==
    /\ pc' = "loop"
    /\ await' = a
    /\ UNCHANGED <<ret, cancelled, fetchClosed>>

\* the end of one pass of the select loop that did not return: the loop
\* condition parseResChan != nil || await > 0 decides
Continue(res, a, open) ==
    IF open \/ a > 0
    THEN /\ pc' = "loop"
         /\ await' = a
         /\ UNCHANGED <<ret, cancelled, fetchClosed>>
    ELSE Leave(ReturnResult(res), a)

\* lines 345-377: the scanner is started, the defer registered, the folder
\* URL read from the context; getURLParam panics when the context does not
\* hold a *url.URL under the key it reads
ExtractStart ==
    /\ pc = "start"
    /\ IF getURLParam(ctx).exit = "return"
       THEN /\ folderURL' = getFolderURL(getURLParam(ctx).url)
            /\ pc' = "loop"
            /\ UNCHANGED <<await, ret, cancelled, fetchClosed>>
       ELSE /\ Leave(Panics, await)
            /\ UNCHANGED folderURL
    /\ UNCHANGED <<input, handled, reqVars, scanVars, parseOpen, result, workers>>

\* the tag whose src does not resolve is skipped and the loop goes on
SkipOnResolveError(err) ==
    /\ Continue(result, await, parseOpen)
    /\ UNCHANGED <<result, workers>>

\* getImgURL returned an error: return nil, err
OnResolveError(err) ==
    /\ Leave(ReturnOnError(result, err), await)
    /\ UNCHANGED <<result, workers>>

\* case img, ok := <-parseResChan with ok: a scanned tag
RecvParseImg ==
    /\ pc = "loop"
    /\ parseOpen
    /\ spc = "sendImg"
    /\ ScannerSentImg
    /\ IF isDataURL(sval)
       THEN /\ result' = appendResult(result, sval)
            /\ Continue(result', await, parseOpen)
            /\ UNCHANGED workers
       ELSE LET r == getImgURL(src(sval), folderURL)
            IN  IF r.kind = "err"
                THEN OnResolveError(r.err)
                ELSE IF r.kind = "panic"
                THEN /\ Leave(Panics, await)
                     /\ UNCHANGED <<result, workers>>
                ELSE /\ workers' = Append(workers, NewWorker(input.fetcher, sval, r.url))
                     /\ Continue(result, await + 1, parseOpen)
                     /\ UNCHANGED result
    /\ UNCHANGED <<input, handled, reqVars, parseOpen, folderURL>>

\* case img, ok := <-parseResChan with !ok: the scanner closed imgc
RecvParseClosed ==
    /\ pc = "loop"
    /\ parseOpen
    /\ imgcClosed
    /\ parseOpen' = FALSE
    /\ Continue(result, await, FALSE)
    /\ UNCHANGED <<input, handled, reqVars, scanVars, result, folderURL, workers>>

\* case err := <-parseErrChan
RecvParseErr ==
    /\ pc = "loop"
    /\ parseOpen
    /\ spc = "sendErr"
    /\ ScannerSentErr
    /\ Leave(ReturnOnError(result, serr), await)
    /\ UNCHANGED <<input, handled, reqVars, parseOpen, result, folderURL, workers>>

\* case img := <-fetchResChan without await--
RecvFetchResNoCount(w) ==
    /\ pc = "loop"
    /\ Sending(w, "res")
    /\ WorkerSent(w)
    /\ result' = appendResult(result, workers[w].out.img)
    /\ Continue(result', await, parseOpen)
    /\ UNCHANGED <<input, handled, reqVars, scanVars, parseOpen, folderURL>>

\* case img := <-fetchResChan
RecvFetchRes(w) ==
    /\ pc = "loop"
    /\ Sending(w, "res")
    /\ WorkerSent(w)
    /\ result' = appendResult(result, workers[w].out.img)
    /\ Continue(result', await - 1, parseOpen)
    /\ UNCHANGED <<input, handled, reqVars, scanVars, parseOpen, folderURL>>

\* case err := <-fetchErrChan
RecvFetchErr(w) ==
    /\ pc = "loop"
    /\ Sending(w, "err")
    /\ WorkerSent(w)
    /\ Leave(ReturnOnError(result, workers[w].out.err), await - 1)
    /\ UNCHANGED <<input, handled, reqVars, scanVars, parseOpen, result, folderURL>>

\* one pass of the drain loop of the deferred function; after the last
\* one the fetch channels are closed and the call is over
DrainRecv(w) ==
    /\ pc = "drain"
    /\ workers[w].pc = "send"
    /\ WorkerSent(w)
    /\ await' = await - 1
    /\ IF await' > 0
       THEN UNCHANGED <<pc, fetchClosed>>
       ELSE pc' = Final(ret) /\ fetchClosed' = TRUE
    /\ UNCHANGED <<input, handled, reqVars, scanVars, parseOpen, result, folderURL, ret, cancelled>>

Next ==
    \/ ScanStep
    \/ ExtractStart
    \/ RecvParseImg
    \/ RecvParseClosed
    \/ RecvParseErr
    \/ \E w \in Workers : FetchGet(w)
    \/ \E w \in Workers : BackoffOperation(w)
    \/ \E w \in Workers : RecvFetchRes(w)
    \/ \E w \in Workers : RecvFetchErr(w)
    \/ \E w \in Workers : DrainRecv(w)

Spec == Init /\ [][Next]_vars

InitElements == input \in ElementInputs /\ Start

\* the caller cancels the context it passed to extractImages: the context
\* derived from it by context.WithCancel is done from then on
CallerCancels ==
    /\ pc = "loop"
    /\ ~cancelled
    /\ cancelled' = TRUE
    /\ UNCHANGED <<input, handled, reqVars, scanVars, pc, parseOpen, await, result, folderURL, ret,
                   fetchClosed, workers>>

NextCancel == Next \/ CallerCancels

\* the runs in which the caller may cancel
CancelInputs == {i \in RunInputs : Len(i.doc) <= MaxCancelDoc /\ i.ctxHasURL}

InitCancel == input \in CancelInputs /\ Start

\* the program with a caller that may cancel; every goroutine that can
\* take a step is scheduled eventually
SpecCancel == InitCancel /\ [][NextCancel]_vars /\ WF_vars(Next)

\* the runs checked under fair scheduling
FairInputs == {i \in RunInputs : Len(i.doc) <= MaxFairDoc}

InitFair == input \in FairInputs /\ Start

\* the Go scheduler: while some goroutine can run, one of them does; no
\* step of a goroutine is undone by another, so each one that can run gets
\* its turn
SpecFair == InitFair /\ [][Next]_vars /\ WF_vars(Next)

\* the page HandleLogic answers with: one img element per tag, in order
formImagesHTML(images) == [i \in 1..Len(images) |-> token(images[i])]

\* HandleLogic from the return of extractImages on: the error extractImages
\* returned is overwritten by the one of formImagesHTML, which is always nil,
\* and the response is built from images whatever the error was; a panic of
\* extractImages passes through HandleLogic
HandleLogic ==
    /\ pc \in {"returned", "panicked"}
    /\ handled.exit = "none"
    /\ handled' = IF ret.exit = "panic"
                  THEN [resp |-> NoResponse, err |-> NilError, exit |-> "panic"]
                  ELSE [resp |-> [isNil |-> FALSE, StatusCode |-> 200,
                                  Body |-> formImagesHTML(ret.res.tags)],
                        err |-> NilError, exit |-> "return"]
    /\ UNCHANGED <<input, reqVars, scanVars, pc, parseOpen, await, result, folderURL,
                   ret, cancelled, fetchClosed, workers>>

\* requestURL.Query(): the values of each name, in the order of the query
Query(pairs) ==
    [n \in {pairs[i].name : i \in 1..Len(pairs)} |->
        LET Named(q) == q.name = n
            named == SelectSeq(pairs, Named)
        IN  [i \in 1..Len(named) |-> named[i].value]]

\* the *url.URL of a parse
ParsedURL(parsed) ==
    [Scheme |-> parsed.Scheme, Host |-> parsed.Host, Path |-> parsed.Path,
     RawQuery |-> parsed.RawQuery, Fragment |-> parsed.Fragment]

ParamError(desc) ==
    [url |-> NoURL, isNil |-> TRUE, err |-> HandlerError(400, desc, 0, <<>>, "nil"),
     exit |-> "return"]

\* extractURLParam: one name in the query, one value of url, the value
\* passes govalidator.IsURL, and then what url.Parse returns for it
extractURLParam(pairs) ==
    LET query == Query(pairs)
        urlParms == IF "url" \in DOMAIN query THEN query["url"] ELSE <<>>
    IN  IF Cardinality(DOMAIN query) # 1 THEN ParamError("unexpected param num")
        ELSE IF Len(urlParms) > 1 THEN ParamError("too many url params")
        ELSE IF Len(urlParms) < 1 THEN ParamError("too few url params")
        ELSE IF ~IsURL(urlParms[1])
             THEN ParamError("invalid URL as 'url' query parameter")
        ELSE IF urlParse(urlParms[1]).err
             THEN [url |-> NoURL, isNil |-> TRUE,
                   err |-> HandlerError(-1, "parse", 0, <<>>, "url.Parse"),
                   exit |-> "return"]
        ELSE [url |-> ParsedURL(urlParse(urlParms[1])), isNil |-> FALSE,
              err |-> NilError, exit |-> "return"]

\* HandleLogic, lines 375-378: the page URL is read from the request; its
\* error is the error of HandleLogic
HandleLogicURLParam ==
    /\ pc = "request"
    /\ urlParam.exit = "none"
    /\ urlParam' = extractURLParam(req)
    /\ handled' = IF urlParam'.err # NilError
                  THEN [resp |-> NoResponse, err |-> urlParam'.err, exit |-> "return"]
                  ELSE handled
    /\ UNCHANGED <<input, scanVars, pc, parseOpen, await, result, folderURL, ret,
                   cancelled, fetchClosed, workers, req, ctx, served>>

\* how getting the page and reading its body end
PageOutcomes == {"ok", "get", "body"}

\* HandleLogic, lines 379-397: the context is made, the page requested and
\* its body read; extractImages is called when both went well.  A URL
\* without a scheme cannot be requested.
HandleLogicPage ==
    /\ pc = "request"
    /\ urlParam.exit = "return"
    /\ handled.exit = "none"
    /\ ctx' = newContext(Background, LoggerValue, ClientValue, urlParam.url)
    /\ \E page \in PageOutcomes :
           /\ urlParam.url.Scheme = <<>> => page = "get"
           /\ IF page = "ok"
              THEN pc' = "start" /\ UNCHANGED handled
              ELSE /\ UNCHANGED pc
                   /\ handled' =
                          [resp |-> NoResponse,
                           err |-> IF page = "get"
                                   THEN HandlerError(500, "Can't get requested page",
                                                     0, <<>>, "get")
                                   ELSE HandlerError(400, "requested page", 0, <<>>, "nil"),
                           exit |-> "return"]
    /\ UNCHANGED <<input, scanVars, parseOpen, await, result, folderURL, ret,
                   cancelled, fetchClosed, workers, req, urlParam, served>>

\* the dynamic type of a non-nil error is *HandlerError: the other errors
\* of this model, of the tokenizer and of url.Parse, carry no status code
IsHandlerError(err) == err.code > 0

\* NewInternalErrorResponse
NewInternalErrorResponse ==
    [isNil |-> FALSE, StatusCode |-> 500, ContentType |-> "application/json",
     Body |-> [error |-> <<"Internal Error">>]]

\* HandleError answering every error with the internal error response
HandleErrorAlwaysInternal(err) == NewInternalErrorResponse

\* ErrorLogger.HandleError: the response for err; the body is the JSON
\* object with the one member "error", the description with the values
\* formatted into it (encoding a map of strings does not fail)
HandleError(err) ==
    IF IsHandlerError(err)
    THEN [isNil |-> FALSE, StatusCode |-> err.code, ContentType |-> "application/json",
          Body |-> [error |-> <<err.desc, err.status, err.url>>]]
    ELSE NewInternalErrorResponse

\* HandleError is called with an error of the run: by ServeHTTPC with the
\* error HandleLogic returned, or with the error extractImages returned
HandleErrorCall ==
    /\ served.exit = "none"
    /\ handled.exit = "return"
    /\ \E err \in {handled.err, ret.err} \ {NilError} :
           served' = [err |-> err, resp |-> HandleError(err), exit |-> "return"]
    /\ UNCHANGED <<input, handled, req, urlParam, ctx, scanVars, pc, parseOpen, await,
                   result, folderURL, ret, cancelled, fetchClosed, workers>>

NextHandler ==
    Next \/ HandleLogicURLParam \/ HandleLogicPage \/ HandleLogic \/ HandleErrorCall

\* the runs HandleLogic is followed on from the call of extractImages
HandlerInputs == {i \in RunInputs : Len(i.doc) <= MaxHandlerDoc}

Param(name, value) == [name |-> name, value |-> value]

StrQwerty == <<"q", "w", "e", "r", "t", "y">>

\* the queries of the requests: no parameter, the page, another name, url
\* twice, url and another name, a word, a root-relative path, a host and
\* path without a scheme, an empty value
Requests ==
    LET page == URLString(PageURL)
    IN  {<<>>,
         <<Param("url", page)>>,
         <<Param("qwerty", page)>>,
         <<Param("url", page), Param("url", page)>>,
         <<Param("url", page), Param("noturl", page)>>,
         <<Param("url", StrQwerty)>>,
         <<Param("url", <<"/">> \o StrQwerty)>>,
         <<Param("url", <<"x", ".", "y", "z", "/", "p">>)>>,
         <<Param("url", <<>>)>>}

\* the state when HandleLogic is called with a request
StartRequest ==
    /\ StartPipeline
    /\ pc = "request"
    /\ req \in Requests
    /\ urlParam = NoParam
    /\ ctx = Background
    /\ served = NotServed

InitHandler ==
    \/ input \in HandlerInputs /\ Start
    \/ input \in HandlerInputs /\ ~input.ctxHasURL /\ StartRequest

\* extractImages called by HandleLogic
SpecHandler == InitHandler /\ [][NextHandler]_vars

\* the same program run on every single img element
SpecElements == InitElements /\ [][Next]_vars

(***************************************************************************)
(* Properties                                                              *)
(***************************************************************************)
Sent(w) == workers[w].sentRes + workers[w].sentErr

Over == pc \in {"returned", "panicked"}

\* C1: fail-fast.  The step in which the control loop receives an error,
\* from the scanner's error channel or from a worker's error channel, ends
\* the loop: the context is cancelled, the call returns exactly the received
\* error, and its result is nil whatever had been accepted before.
C1_FailFast ==
    [][/\ (pc = "loop" /\ spc = "sendErr" /\ spc' = "done")
           => /\ pc' \in {"drain", "returned"}
              /\ cancelled'
              /\ ret' = [res |-> NilResult, err |-> serr, exit |-> "return"]
       /\ \A w \in Workers :
            (pc = "loop" /\ Sending(w, "err") /\ workers'[w].pc = "done")
            => /\ pc' \in {"drain", "returned"}
               /\ cancelled'
               /\ ret' = [res |-> NilResult, err |-> workers[w].out.err,
                          exit |-> "return"]]_vars

\* a call that returned an error after it had already accepted a tag
C1_Witness ==
    /\ pc = "returned"
    /\ ret.err # NilError
    /\ ret.res = NilResult
    /\ Len(result) >= 1

\* C2: leak-free abort.  When the call is over, every dispatched worker has
\* handed off its single value and has ended; the fetch channels are closed
\* only when no worker is running or waiting in a send; and a call that
\* returns an error returns nothing else.
C2_LeakFreeAbort ==
    /\ Over => \A w \in Workers : workers[w].pc = "done" /\ Sent(w) = 1
    /\ fetchClosed => \A w \in Workers : workers[w].pc = "done"
    /\ (pc = "returned" /\ ret.err # NilError) => ret.res = NilResult

\* two dispatched fetches both delivered an error: one ended the loop, the
\* other one was received by the drain
C2_Witness ==
    /\ pc = "returned"
    /\ ret.err # NilError
    /\ \E v, w \in Workers :
         /\ v # w
         /\ workers[v].sentErr = 1
         /\ workers[w].sentErr = 1

\* C3: after the call has returned an error (scan error, fetch error or
\* URL resolution failure) the scanner goroutine is not left waiting in a
\* send of a tag or of an error that nobody will receive.
C3_ScannerNotOrphaned ==
    (pc = "returned" /\ ret.err # NilError) => spc \notin {"sendImg", "sendErr"}

\* C4: every fetchImage worker hands off exactly one value over both
\* channels: none before its send, one once it has ended, never two and
\* never one on each channel.
C4_FetcherExactlyOne ==
    \A w \in Workers :
        workers[w].kind = "plain"
        => /\ Sent(w) <= 1
           /\ workers[w].pc = "get" => Sent(w) = 0
           /\ workers[w].pc = "send" => Sent(w) = 0 /\ workers[w].out.ch \in {"res", "err"}
           /\ workers[w].pc = "done" => Sent(w) = 1

\* one fetchImage worker ended with a tag, another one with an error it
\* produced after the cancellation
C4_Witness ==
    /\ cancelled
    /\ \E v, w \in Workers :
         /\ workers[v].kind = "plain" /\ workers[v].pc = "done" /\ workers[v].sentRes = 1
         /\ workers[w].kind = "plain" /\ workers[w].pc = "done" /\ workers[w].sentErr = 1

\* C5: every backoff worker hands off exactly one value over both
\* channels, whatever the number of attempts.
C5_BackoffExactlyOne ==
    \A w \in Workers :
        workers[w].kind = "backoff"
        => /\ Sent(w) <= 1
           /\ workers[w].pc = "get" => Sent(w) = 0
           /\ workers[w].pc = "send" => Sent(w) = 0 /\ workers[w].out.ch \in {"res", "err"}
           /\ workers[w].pc = "done" => Sent(w) = 1

\* a backoff worker that retried is about to hand off, another one has ended
C5_Witness ==
    \E v, w \in Workers :
        /\ workers[v].kind = "backoff" /\ workers[v].pc = "send" /\ workers[v].attempts >= 2
        /\ workers[w].kind = "backoff" /\ workers[w].pc = "done" /\ Sent(w) = 1

\* C6: a backoff worker whose last attempt ended in a terminal failure
\* delivers that failure, a non-nil error, on the error channel.
C6_TerminalFailureDelivered ==
    \A w \in Workers :
        (workers[w].kind = "backoff" /\ workers[w].pc = "send"
            /\ workers[w].opErr # NilError)
        => /\ workers[w].out.ch = "err"
           /\ workers[w].out.err = workers[w].opErr
           /\ workers[w].out.err # NilError

\* C7: the tag a backoff worker delivers on the result channel is the tag
\* fetchImage delivers for the same response: the copy of the dispatched
\* tag with src replaced by the data URL.
C7_BackoffDeliversFetchedTag ==
    \A w \in Workers :
        (workers[w].kind = "backoff" /\ Sending(w, "res"))
        => workers[w].out.img
             = fetchImage(workers[w].img, workers[w].url, workers[w].last).img

\* C8: a backoff worker makes a further attempt only when its previous
\* attempt observed a response with status >= 500.
C8_RetryOnlyOn5xx ==
    [][\A w \in Workers :
          (workers[w].kind = "backoff"
              /\ workers[w].attempts >= 1
              /\ workers'[w].attempts > workers[w].attempts)
          => /\ workers[w].last.kind = "resp"
             /\ workers[w].last.status >= 500]_vars

\* a backoff worker is in its second attempt or later
C8_Witness ==
    \E w \in Workers : workers[w].kind = "backoff" /\ workers[w].attempts >= 2

\* C9: the number of attempts is bounded by the backoff clock, and a worker
\* whose last attempt still observed a 5xx status stops because the maximum
\* elapsed time is exceeded and delivers the retry failure, a non-nil
\* error, on the error channel.
C9_BoundedRetry ==
    \A w \in Workers :
        workers[w].kind = "backoff"
        => /\ workers[w].attempts <= MaxElapsedTicks + 2
           /\ (workers[w].pc = "send" /\ workers[w].last.kind = "resp"
                  /\ workers[w].last.status >= 500)
              => /\ workers[w].elapsed > MaxElapsedTicks
                 /\ workers[w].out.ch = "err"
                 /\ workers[w].out.err = NeedRetry
                 /\ workers[w].out.err # NilError

\* a backoff worker gave up after its last 5xx response
C9_Witness ==
    \E w \in Workers :
        /\ workers[w].kind = "backoff"
        /\ workers[w].pc = "send"
        /\ workers[w].last.status >= 500

\* C10: the step in which the control loop leaves with a nil error is taken
\* with the tag channel observed closed and no fetch outstanding.
C10_SuccessOnlyWhenDone ==
    [][(pc = "loop" /\ pc' \in {"drain", "returned"}
           /\ ret'.exit = "return" /\ ret'.err = NilError)
       => (~parseOpen' /\ await' = 0)]_vars

\* the number of places of seq that hold x
Count(seq, x) == Cardinality({i \in DOMAIN seq : seq[i] = x})

\* a and b hold the same entries the same number of times
SameEntries(a, b) ==
    /\ Len(a) = Len(b)
    /\ \A i \in DOMAIN a : Count(a, a[i]) = Count(b, a[i])

IsInline(img) == HasPrefix(src(img), StrData)

IsToFetch(img) == ~IsInline(img)

\* C11: when extractImages returns a nil error, every tag the scanner
\* handed off that is not inline has its fetch routine, that routine has
\* delivered one tag, and the returned collection holds the inline tags
\* and the delivered tags, each exactly as often as it was emitted or
\* delivered, and nothing else.
C11_ResultComplete ==
    (pc = "returned" /\ ret.err = NilError) =>
        LET inline == SelectSeq(emitted, IsInline)
            toFetch == SelectSeq(emitted, IsToFetch)
            delivered == [w \in Workers |-> workers[w].out.img]
        IN  /\ Len(toFetch) = Len(workers)
            /\ \A w \in Workers : /\ workers[w].img = toFetch[w]
                                  /\ workers[w].sentRes = 1
                                  /\ workers[w].out.ch = "res"
            /\ SameEntries(ret.res.tags, inline \o delivered)

\* C12: the step in which the control loop receives a tag whose src starts
\* with "data:" appends that very tag to the result and does nothing else:
\* no fetch routine is started, the outstanding counter keeps its value and
\* the call neither returns nor panics, as a URL resolution could make it.
C12_InlineAppendedDirectly ==
    [][(pc = "loop" /\ spc = "sendImg" /\ spc' = "run" /\ HasPrefix(src(sval), StrData))
       => /\ result' = Append(result, sval)
          /\ workers' = workers
          /\ await' = await
          /\ ret' = ret
          /\ pc' = "loop"]_vars

\* an inline tag was accepted while no fetch routine exists
C12_Witness ==
    /\ pc = "loop"
    /\ workers = <<>>
    /\ await = 0
    /\ \E i \in DOMAIN result : HasPrefix(src(result[i]), StrData) /\ result[i] = emitted[i]

\* the src of the tag does not resolve: url.Parse rejects it, or the
\* resolved reference is not a valid URL
ResolutionFails(img) == getImgURL(src(img), folderURL).kind = "err"

\* C13: the step in which the control loop receives a tag that is not
\* inline and whose URL resolution fails leaves the loop with that error,
\* a 400 error, and a nil result; it starts no fetch routine and does not
\* increment the outstanding counter.  Once the loop is left no fetch
\* routine is started any more, and when the call has returned every fetch
\* routine started before has been received from.
C13_ResolutionFailureAborts ==
    /\ [][(pc = "loop" /\ spc = "sendImg" /\ spc' = "run"
              /\ ~HasPrefix(src(sval), StrData) /\ ResolutionFails(sval))
          => /\ pc' \in {"drain", "returned"}
             /\ ret'.exit = "return"
             /\ ret'.err = getImgURL(src(sval), folderURL).err
             /\ ret'.err.code = 400
             /\ ret'.res = NilResult
             /\ workers' = workers
             /\ await' = await
             /\ result' = result]_vars
    /\ [][pc # "loop" => Len(workers') = Len(workers)]_vars
    /\ [](pc = "returned" => \A w \in Workers : workers[w].pc = "done" /\ Sent(w) = 1)

\* the call returned the resolution error of a tag after draining a fetch
\* routine that was started for an earlier tag
C13_Witness ==
    /\ pc = "returned"
    /\ ret.err.desc = "invalid img tag src URL: url parse"
    /\ Len(workers) >= 1
    /\ Len(emitted) = Len(workers) + 1
    /\ \A w \in Workers : workers[w].pc = "done"

\* the scan of doc runs over every token without a failure: every img
\* element has a src and the tokenizer ends with io.EOF
FullySuccessfulScan ==
    /\ input.term = "EOF"
    /\ \A i \in DOMAIN input.doc :
           (input.doc[i].Data = "img") => \E a \in DOMAIN input.doc[i].Attr :
                                              input.doc[i].Attr[a].Key = "src"

\* C14: the tag channel is closed only after the scanner's error, if it
\* has one, was received: the step in which the scanner's error send
\* returns is the step that closes the channel, the scanner is then done
\* and stays done, so it sends no second error; when the channel is closed
\* after a failed scan the control loop holds the scanner's error, and
\* when the control loop has observed the channel closed the scan was
\* fully successful and had no error.
C14_ErrorBeforeClose ==
    /\ [][(spc = "sendErr" /\ spc' # "sendErr")
          => (~imgcClosed /\ imgcClosed' /\ spc' = "done" /\ serr' = serr
                 /\ ret'.err = serr /\ serr # NilError)]_vars
    /\ [][spc = "done" => (spc' = "done" /\ serr' = serr)]_vars
    /\ [](imgcClosed => spc = "done")
    /\ []((imgcClosed /\ ~FullySuccessfulScan)
            => (serr # NilError /\ ret.err = serr /\ ret.exit = "return"))
    /\ [](~parseOpen => (FullySuccessfulScan /\ serr = NilError
                            /\ spos = Len(input.doc) + 1))

\* the scanner's error was received and the tag channel closed after it
C14_Witness ==
    /\ imgcClosed
    /\ serr = TokenizerError
    /\ ret.err = serr
    /\ emitted # <<>>

\* an img element without a src attribute
HasNoSrc(tok) ==
    /\ tok.Data = "img"
    /\ \A a \in DOMAIN tok.Attr : tok.Attr[a].Key # "src"

\* the img elements of doc before place p
ImgsBefore(doc, p) == {i \in DOMAIN doc : i < p /\ doc[i].Data = "img"}

\* C15: for an img element without src at place p of the document, the
\* scanner never gets past p: once it has scanned that element it is
\* sending, or has sent, one error with code 400 and stays there; the tags
\* it emits and the parser calls it makes are those of the elements before
\* p and of p itself; and when the element was scanned and the call has
\* returned, it returned a non-nil error and a nil result.
C15_NoSrcStopsScan ==
    \A p \in DOMAIN input.doc :
        HasNoSrc(input.doc[p])
        => /\ spos <= p
           /\ Len(emitted) <= Cardinality(ImgsBefore(input.doc, p))
           /\ tokenParseCall <= Cardinality(ImgsBefore(input.doc, p)) + 1
           /\ (spos = p /\ spc # "run")
              => /\ spc \in {"sendErr", "done"}
                 /\ serr.code = 400
                 /\ serr.desc = "no src attribute for <img/> tag"
                 /\ (pc = "returned" => (ret.err # NilError /\ ret.res = NilResult))

\* the document has no img element
HasNoImg(doc) == \A i \in DOMAIN doc : doc[i].Data # "img"

IsImgElement(tok) == tok.Data = "img" /\ tok.Type \in {"StartTag", "SelfClosingTag"}

\* the tags of the img elements among the first n tokens of doc, in
\* document order
RECURSIVE TagsOf(_, _)
TagsOf(doc, n) ==
    IF n = 0 THEN <<>>
    ELSE IF IsImgElement(doc[n])
         THEN Append(TagsOf(doc, n - 1), parseImgToken(doc[n]).img)
         ELSE TagsOf(doc, n - 1)

\* C17: the tags the scanner has handed off are the tags of the img
\* elements it has passed, one each and in document order; it has called
\* the parser once for each of these elements and once for the img
\* element it is stopped at, and it is never stopped at another element;
\* when it is done after a fully successful scan it has handed off the
\* tag of every img element, has closed the tag channel and has no error.
C17_OneTagPerImgElement ==
    LET atElement == spc # "run" /\ spos <= Len(input.doc)
    IN  /\ spos <= Len(input.doc) + 1
        /\ emitted = TagsOf(input.doc, spos - 1)
        /\ tokenParseCall = Len(TagsOf(input.doc, spos - 1)) + (IF atElement THEN 1 ELSE 0)
        /\ atElement => IsImgElement(input.doc[spos])
        /\ (spc = "sendImg") => sval = parseImgToken(input.doc[spos]).img
        /\ (spc = "done" /\ FullySuccessfulScan)
           => /\ emitted = TagsOf(input.doc, Len(input.doc))
              /\ imgcClosed
              /\ serr = NilError

\* the scanner is done with a document whose img element, in self-closing
\* form, stands inside an <a> element, and has handed off its tag
C17_Witness ==
    /\ spc = "done"
    /\ imgcClosed
    /\ serr = NilError
    /\ Len(input.doc) = 2
    /\ input.doc[1] = TokA
    /\ input.doc[2].Type = "SelfClosingTag"
    /\ Len(emitted) = 1
    /\ tokenParseCall = 1

\* the places of attrs with key src
SrcPlaces(attrs) == {i \in DOMAIN attrs : attrs[i].Key = "src"}

\* C18: when the scanner has parsed an img element with a src attribute,
\* the tag parseImgToken returned has exactly one attribute with key src
\* and srcIndex is the place of that attribute in the tag's own attribute
\* list, and there is no error; for an element without src there is an
\* error and the tag is the zero imgTag.
C18_ExactlyOneSrc ==
    spc \in {"sendImg", "sendErr"} /\ spos <= Len(input.doc)
    => IF SrcPlaces(input.doc[spos].Attr) # {}
       THEN /\ spc = "sendImg"
            /\ Cardinality(SrcPlaces(sval.attr)) = 1
            /\ sval.srcIndex \in SrcPlaces(sval.attr)
       ELSE /\ spc = "sendErr"
            /\ serr # NilError
            /\ sval = ZeroImg

\* the attributes of attrs[1..n] whose key is one of the six kept keys,
\* in their order
RECURSIVE KeptAttrs(_, _)
KeptAttrs(attrs, n) ==
    IF n = 0 THEN <<>>
    ELSE IF attrs[n].Key \in {"src", "alt", "style", "longdesc", "width", "height"}
         THEN Append(KeptAttrs(attrs, n - 1), attrs[n])
         ELSE KeptAttrs(attrs, n - 1)

\* every attribute of tok has a kept key
AllKept(tok) == KeptAttrs(tok.Attr, Len(tok.Attr)) = tok.Attr

\* C19 as stated: the tag the scanner got for an img element holds the
\* element's attributes with a kept key, in order and unchanged, and for
\* an element whose attributes all have kept keys img.token() is the
\* element's token.
C19_Original ==
    (spc = "sendImg")
    => /\ sval.attr = KeptAttrs(input.doc[spos].Attr, Len(input.doc[spos].Attr))
       /\ AllKept(input.doc[spos]) => token(sval) = input.doc[spos]

\* C19, amended: the tag the scanner got for an img element holds the
\* element's attributes with a kept key, in order and unchanged; for an
\* element whose attributes all have kept keys img.token() is the
\* element's token if the element is in start-tag form, and that token
\* with its type changed to StartTag if it is in self-closing form.
C19_KeepsAllowedAttrs ==
    (spc = "sendImg")
    => /\ sval.attr = KeptAttrs(input.doc[spos].Attr, Len(input.doc[spos].Attr))
       /\ AllKept(input.doc[spos])
          => /\ token(sval) = [input.doc[spos] EXCEPT !.Type = "StartTag"]
             /\ (input.doc[spos].Type = "StartTag") => token(sval) = input.doc[spos]
             /\ (input.doc[spos].Type # "StartTag") => token(sval) # input.doc[spos]

\* a start-tag element with alt before src, all kept, was parsed and its
\* tag gives back the token
C19_Witness ==
    /\ spc = "sendImg"
    /\ input.doc[spos].Type = "StartTag"
    /\ Len(input.doc[spos].Attr) = 2
    /\ input.doc[spos].Attr[1].Key = "alt"
    /\ input.doc[spos].Attr[2].Key = "src"
    /\ token(sval) = input.doc[spos]

\* a reference that starts with a single '/'
IsRootRelative(ref) == ref # <<>> /\ ref[1] = "/" /\ (Len(ref) = 1 \/ ref[2] # "/")

FolderString == TrimRight(URLString(folderURL), "/")

\* C21: the step in which the control loop receives a tag whose src starts
\* with '/' starts one fetch routine, and the URL it is given is the folder
\* URL, path included and written without a trailing '/', followed by the
\* reference.
C21_RootUnderFolder ==
    [][(pc = "loop" /\ spc = "sendImg" /\ spc' = "run" /\ IsRootRelative(src(sval)))
       => /\ Len(workers') = Len(workers) + 1
          /\ workers'[Len(workers')].url = FolderString \o src(sval)]_vars

\* a reference that is neither absolute nor starts with '/'
IsRelativeRef(ref) ==
    /\ ref # <<>>
    /\ ref[1] # "/"
    /\ ~urlParse(ref).err
    /\ urlParse(ref).Scheme = <<>>

IsAbsoluteRef(ref) == ~urlParse(ref).err /\ urlParse(ref).Scheme # <<>>

\* the control loop receives a tag to fetch whose src is absolute
ReceivesAbsolute ==
    /\ pc = "loop"
    /\ spc = "sendImg"
    /\ spc' = "run"
    /\ ~HasPrefix(src(sval), StrData)
    /\ IsAbsoluteRef(src(sval))

\* C23 as stated: the step in which the control loop receives a tag whose
\* src is absolute starts one fetch routine with the src, unchanged, as
\* its URL, and does not return an error.
C23_Original ==
    [][ReceivesAbsolute
       => /\ Len(workers') = Len(workers) + 1
          /\ workers'[Len(workers')].url = src(sval)
          /\ ret' = ret]_vars

\* C23, amended: the step in which the control loop receives a tag whose
\* src is absolute starts one fetch routine with the src, unchanged, as
\* its URL if the src passes the validity check, whatever the folder URL
\* is; if it does not, the step starts no fetch routine and returns the
\* 400 error of the validity check.
C23_AbsoluteUnchangedIfValid ==
    [][ReceivesAbsolute
       => IF IsURL(src(sval))
          THEN /\ Len(workers') = Len(workers) + 1
               /\ workers'[Len(workers')].url = src(sval)
               /\ ret' = ret
          ELSE /\ workers' = workers
               /\ ret'.exit = "return"
               /\ ret'.err.code = 400
               /\ ret'.err.desc = "invalid img tag src URL: is not valid URL"]_vars

\* the absolute reference http://y/c was passed on unchanged on a page of
\* another host
C23_Witness ==
    /\ folderURL.Host = <<"x">>
    /\ folderURL.Path # <<>>
    /\ \E w \in Workers :
           /\ workers[w].url = StrHttp \o <<":", "/", "/", "y", "/", "c">>
           /\ workers[w].url = src(workers[w].img)

\* the page URL p written with one more '/' at the end of its path
WithSlash(p) == [p EXCEPT !.Path = @ \o <<"/">>]

\* the page URL p with the last character of its path removed
WithoutLast(p) == [p EXCEPT !.Path = SubSeq(@, 1, Len(@) - 1)]

\* C24: the folder URL extractImages works with is also the folder of the
\* page URL written with one more trailing '/', and, for a page URL whose
\* path ends with '/', of the page URL written without it; the pages
\* /d/p and /d/p/ of host x both have the folder http://x/d.
C24_FolderIgnoresTrailingSlash ==
    (pc # "start" /\ input.ctxHasURL)
    => /\ folderURL = getFolderURL(WithSlash(input.pageURL))
       /\ (Len(input.pageURL.Path) > 1
              /\ input.pageURL.Path[Len(input.pageURL.Path)] = "/")
          => folderURL = getFolderURL(WithoutLast(input.pageURL))
       /\ (input.pageURL.Path \in {<<"/", "d", "/", "p">>, <<"/", "d", "/", "p", "/">>})
          => URLString(folderURL) = StrHttp \o <<":", "/", "/", "x", "/", "d">>

\* the folder of a page whose path is written with a trailing '/' was
\* computed
C24_Witness ==
    /\ pc = "loop"
    /\ input.pageURL.Path = <<"/", "d", "/", "p", "/">>
    /\ URLString(folderURL) = StrHttp \o <<":", "/", "/", "x", "/", "d">>

\* the place of the last '/' of s, 0 when there is none
LastSlash(s) ==
    IF \E i \in DOMAIN s : s[i] = "/"
    THEN CHOOSE i \in DOMAIN s : s[i] = "/" /\ \A j \in DOMAIN s : s[j] = "/" => j <= i
    ELSE 0

\* C25: the folder URL extractImages works with has the scheme and the
\* host of the page URL and neither query nor fragment; its path is the
\* page's path, taken without the '/' at its ends, up to its last '/',
\* and is empty when there is no '/' in it; the page URL the call was
\* given is never changed.
C25_FolderOfPage ==
    /\ []((pc # "start" /\ input.ctxHasURL)
          => LET t == Trim(input.pageURL.Path, "/")
             IN  /\ folderURL.Scheme = input.pageURL.Scheme
                 /\ folderURL.Host = input.pageURL.Host
                 /\ folderURL.RawQuery = <<>>
                 /\ folderURL.Fragment = <<>>
                 /\ folderURL.Path = IF LastSlash(t) = 0 THEN <<>>
                                     ELSE SubSeq(t, 1, LastSlash(t) - 1))
    /\ [][input'.pageURL = input.pageURL]_vars

\* the folder of a page with a fragment, two folders deep
C25_Witness ==
    /\ pc = "loop"
    /\ input.pageURL.Fragment = <<"f">>
    /\ input.pageURL.Path = <<"/", "d", "/", "e", "/", "p">>
    /\ folderURL.Path = <<"d", "/", "e">>
    /\ folderURL.Fragment = <<>>

\* C26: a fetchImage routine that waits at its send holds a tag for the
\* result channel exactly when the GET gave a response, its status is
\* 200, its Content-Type without the white space at its ends is not empty
\* and begins with "image", and the body was copied without error.
\* Otherwise it holds an error: code 500 for a failed GET; else code 400
\* naming the status for a status other than 200; else code 400 "no
\* content-type" for an empty Content-Type; else code 400 "not image
\* content-type" for one that does not begin with "image"; else the code
\* 400 error of the failed copy.
C26_FetchValidation ==
    \A w \in Workers :
        (workers[w].kind = "plain" /\ workers[w].pc = "send")
        => LET r == workers[w].last
               o == workers[w].out
               ct == TrimSpace(r.ct)
               good == /\ r.kind = "resp"
                       /\ r.status = 200
                       /\ ct # <<>>
                       /\ HasPrefix(ct, StrImage)
                       /\ ~r.copyErr
           IN  /\ (o.ch = "res") = good
               /\ (o.ch = "err") = ~good
               /\ good => o.err = NilError
               /\ ~good =>
                    IF r.kind # "resp" THEN o.err.code = 500
                    ELSE IF r.status # 200
                         THEN /\ o.err.code = 400
                              /\ o.err.desc = "expected status code 200"
                              /\ o.err.status = r.status
                    ELSE IF ct = <<>>
                         THEN /\ o.err.code = 400
                              /\ o.err.desc = "no content-type on image"
                    ELSE IF ~HasPrefix(ct, StrImage)
                         THEN /\ o.err.code = 400
                              /\ o.err.desc = "not image content-type on image"
                    ELSE /\ o.err.code = 400
                         /\ o.err.desc = "image fetching error"

\* a fetchImage routine got a 404 response without Content-Type and holds
\* the status error
C26_Witness ==
    \E w \in Workers :
        /\ workers[w].kind = "plain"
        /\ workers[w].pc = "send"
        /\ workers[w].last.status = 404
        /\ TrimSpace(workers[w].last.ct) = <<>>
        /\ workers[w].out.err.desc = "expected status code 200"

\* the standard base64 encoding of body, with the padded last group
RECURSIVE StdEncoding(_)
StdEncoding(body) ==
    IF body = <<>> THEN <<>>
    ELSE IF Len(body) = 1
         THEN <<encodeStd[(body[1] \div 4) + 1], encodeStd[((body[1] % 4) * 16) + 1],
                "=", "=">>
    ELSE IF Len(body) = 2
         THEN <<encodeStd[(body[1] \div 4) + 1],
                encodeStd[((body[1] % 4) * 16 + (body[2] \div 16)) + 1],
                encodeStd[((body[2] % 16) * 4) + 1], "=">>
    ELSE EncodeGroup(body[1], body[2], body[3]) \o StdEncoding(SubSeq(body, 4, Len(body)))

\* C27: the tag a fetchImage routine holds for the result channel has the
\* src "data:" + content type + ";base64," + payload, where the payload is
\* the whole standard base64 encoding of the body of the response,
\* whatever the length of the body.
C27_CompletePayload ==
    \A w \in Workers :
        (workers[w].kind = "plain" /\ workers[w].pc = "send" /\ workers[w].out.ch = "res")
        => src(workers[w].out.img) =
               StrData \o TrimSpace(workers[w].last.ct) \o StrBase64
                   \o StdEncoding(workers[w].last.body)

\* C28: whenever the derived context is done while the control loop runs
\* with fetches outstanding, the call eventually returns with a non-nil
\* error, every fetch routine having handed off exactly one value.
C28_CancelEndsWithError ==
    (pc = "loop" /\ cancelled /\ await > 0)
    ~> (/\ pc = "returned"
        /\ ret.err # NilError
        /\ \A w \in Workers : workers[w].pc = "done" /\ Sent(w) = 1)

\* the control loop receives the inline tag the scanner is sending
ReceivesInline ==
    pc = "loop" /\ spc = "sendImg" /\ spc' = "run" /\ HasPrefix(src(sval), StrData)

\* the control loop receives the tag fetch routine w is sending
ReceivesFetched(w) ==
    /\ pc = "loop"
    /\ workers[w].pc = "send"
    /\ workers[w].out.ch = "res"
    /\ workers'[w].pc = "done"

\* C29: the result only grows at its end, by the event the control loop
\* receives: a step that receives an inline tag puts that tag last, a
\* step that receives the completion of a fetch routine puts the tag this
\* routine delivered last, whatever place its element has in the
\* document, and no other step changes the result.
C29_ResultInReceiveOrder ==
    [][IF ReceivesInline
       THEN result' = result \o <<sval>>
       ELSE IF \E w \in Workers : ReceivesFetched(w)
            THEN \E w \in Workers : ReceivesFetched(w) /\ result' = result \o <<workers[w].out.img>>
            ELSE result' = result]_vars

\* the result holds the tags of two fetch routines, the one dispatched
\* second first
C29_Witness ==
    /\ Len(workers) = 2
    /\ Len(result) = 2
    /\ result[1] = workers[2].out.img
    /\ result[2] = workers[1].out.img
    /\ result[1] # result[2]
    /\ emitted = <<workers[1].img, workers[2].img>>


\* C30: an error of the pipeline is not dropped by the composing layer: when
\* extractImages has returned an error, HandleLogic returns that error and
\* no response
C30_ErrorSurfaced ==
    (handled.exit = "return" /\ ret.err # NilError)
        => (handled.err = ret.err /\ handled.resp = NoResponse)


\* the request has exactly one parameter, named url, with one value
OneURLValue(pairs) == Len(pairs) = 1 /\ pairs[1].name = "url"

\* a value that is an absolute URL: it parses and has a scheme
IsAbsoluteValue(value) == ~urlParse(value).err /\ urlParse(value).Scheme # <<>>

\* extractURLParam returns to HandleLogic
ExtractURLParamReturns == urlParam.exit = "none" /\ urlParam'.exit # "none"

\* C31: extractURLParam returns a URL that is not nil and no error only
\* when the query has exactly one parameter, named url, with exactly one
\* value that is an absolute URL; in every other case it returns an error
\* and a nil URL; it does not panic
C31_URLParamOnlyIfAbsolute ==
    [][ExtractURLParamReturns
       => /\ urlParam'.exit = "return"
          /\ IF OneURLValue(req) /\ IsAbsoluteValue(req[1].value)
             THEN (urlParam'.err = NilError) = ~urlParam'.isNil
             ELSE urlParam'.err # NilError /\ urlParam'.isNil]_vars


\* the fetch routines dispatched whose value has not been received
Outstanding == Cardinality({w \in Workers : Sent(w) = 0})

\* the body of extractImages is left: the deferred function begins
LeavesBody == pc \in {"start", "loop"} /\ pc' \notin {"start", "loop"}

\* C32: abort ordering.  The step that leaves the body cancels the context
\* and dispatches nothing, and the counter then is the number of fetch
\* routines outstanding (the one whose error caused the abort is counted
\* off).  While draining, the context is cancelled and the fetch channels
\* are open, no fetch is dispatched, no scan event is read, nothing is
\* added to the result, and each receive takes the value of one outstanding
\* routine and counts it off.  The fetch channels are closed only when
\* nothing is outstanding, and the call is over only with them closed.
C32_AbortOrdering ==
    [][/\ LeavesBody
           => /\ cancelled'
              /\ Len(workers') = Len(workers)
              /\ await' = Outstanding'
       /\ pc = "drain"
           => /\ cancelled /\ ~fetchClosed
              /\ Len(workers') = Len(workers)
              /\ emitted' = emitted
              /\ spc \in {"sendImg", "sendErr"} => spc' = spc
              /\ parseOpen' = parseOpen
              /\ result' = result
              /\ ret' = ret
              /\ await' # await => await' = await - 1 /\ Outstanding' = Outstanding - 1
              /\ Outstanding' # Outstanding => await' = await - 1
       /\ (~fetchClosed /\ fetchClosed')
           => cancelled' /\ await' = 0 /\ Outstanding' = 0 /\ pc' \in {"returned", "panicked"}
       /\ pc' \in {"returned", "panicked"} => fetchClosed']_vars

\* an abort by the error of one fetch routine with another one outstanding:
\* the first is counted off, the second is still to be drained
C32_Witness ==
    /\ pc = "drain"
    /\ ret.err # NilError
    /\ Len(workers) = 2
    /\ Outstanding = 1
    /\ await = 1


\* one pass of the select of the control loop
SelectReceives ==
    \/ RecvParseImg
    \/ RecvParseClosed
    \/ RecvParseErr
    \/ \E w \in Workers : RecvFetchRes(w)
    \/ \E w \in Workers : RecvFetchErr(w)

\* a value is ready on a channel the select receives from: the scanner is
\* at a send or has closed imgc (while parseResChan is not nil), or a
\* fetch routine is at its send
SelectReady ==
    \/ parseOpen /\ (spc \in {"sendImg", "sendErr"} \/ imgcClosed)
    \/ \E w \in Workers : workers[w].pc = "send"

\* the control loop receives a scanned tag
ReceivesTag == pc = "loop" /\ spc = "sendImg" /\ spc' = "run"

\* C33: the control loop blocks on no send.  In the loop it can take a
\* step exactly when a value is ready on one of the channels of its select,
\* and in the drain exactly when a fetch routine is at its send.  The step
\* that receives a scanned tag ends back in the loop or in the deferred
\* function without a step of any fetch routine: the routines there were
\* are as they were, and a routine it dispatched has done nothing yet.
C33_LoopOnlyReceives ==
    /\ [](pc = "loop" => (ENABLED SelectReceives <=> SelectReady))
    /\ [](pc = "drain" => (ENABLED (\E w \in Workers : DrainRecv(w))
                              <=> \E w \in Workers : workers[w].pc = "send"))
    /\ [][ReceivesTag
           => /\ pc' \in {"loop", "drain", "returned", "panicked"}
              /\ \A w \in Workers : workers'[w] = workers[w]
              /\ Len(workers') > Len(workers)
                    => /\ workers'[Len(workers')].pc = "get"
                       /\ workers'[Len(workers')].out = NoOutcome]_vars

\* an inline tag was accepted and a fetch dispatched, and the loop waits
\* with nothing ready
C33_Witness ==
    /\ pc = "loop"
    /\ Len(result) = 1
    /\ Len(workers) = 1
    /\ workers[1].pc = "get"
    /\ ~SelectReady


\* C34: the counter await is never negative and is the number of fetch
\* routines dispatched whose value has not been received; a step raises
\* it by one, and only together with one dispatch, or lowers it by one,
\* and only together with the receipt of the value of one routine.
C34_AwaitCountsOutstanding ==
    /\ [](await >= 0 /\ await = Outstanding)
    /\ [][/\ await' > await
              => await' = await + 1 /\ Len(workers') = Len(workers) + 1
          /\ Len(workers') # Len(workers) => await' = await + 1
          /\ await' < await
              => /\ await' = await - 1
                 /\ \E w \in Workers :
                       /\ Sent(w) = 0
                       /\ workers'[w].sentRes + workers'[w].sentErr = 1
                       /\ \A v \in Workers \ {w} : workers'[v] = workers[v]]_vars

\* two fetches were dispatched and the tag of one of them was received
C34_Witness ==
    /\ pc = "loop"
    /\ Len(workers) = 2
    /\ Outstanding = 1
    /\ await = 1
    /\ Len(result) = 1


LeavesWithScanErrorPending == pc = "loop" /\ pc' # "loop" /\ spc = "sendErr"

\* C36: a scan error is not lost.  The tag channel is not closed while the
\* scanner waits to hand off its error, and a call that leaves its loop
\* while the scanner waits there returns an error that is not nil: the
\* error of the scanner, or the error a fetch routine handed off in that
\* step.
C36_ScanErrorNotLost ==
    /\ [](spc = "sendErr" => ~imgcClosed)
    /\ [][LeavesWithScanErrorPending
           => /\ ret'.exit = "return"
              /\ ret'.err # NilError
              /\ \/ ret'.err = serr
                 \/ \E w \in Workers : Sending(w, "err") /\ ret'.err = workers[w].out.err]_vars


\* C37: getImgURL is total on the src of every scanned tag: the step in
\* which the control loop receives a tag does not end in a panic, and so the
\* call of extractImages that has read its page URL does not end by one.
C37_ResolveNeverPanics ==
    /\ [][ReceivesTag => ret'.exit # "panic"]_vars
    /\ [](getURLParam(ctx).exit = "return" => pc # "panicked")


\* tag d is tag o but for the value of the attribute at srcIndex
SameButSrc(d, o) ==
    /\ d.srcIndex = o.srcIndex
    /\ Len(d.attr) = Len(o.attr)
    /\ \A i \in 1..Len(o.attr) :
          /\ d.attr[i].Key = o.attr[i].Key
          /\ i # o.srcIndex => d.attr[i].Val = o.attr[i].Val

MadeByNewContext(c) == c.ctxURLParamKey.type = "*url.URL"

\* C39: the page URL stored by newContext is the one the pipeline reads.
\* When HandleLogic has made its context from the URL of the request,
\* getURLParam returns that URL from it and does not panic; and a call of
\* extractImages with a context made by newContext goes into its loop with
\* the folder of the stored URL as its folder URL.
C39_ContextHoldsPageURL ==
    [][/\ ctx' # ctx
           => getURLParam(ctx') = [exit |-> "return", url |-> urlParam.url]
       /\ (pc = "start" /\ pc' # "start" /\ MadeByNewContext(ctx))
           => /\ pc' = "loop"
              /\ folderURL' = getFolderURL(ctx.ctxURLParamKey.url)]_vars


\* C40: HandleError answers every error with one response.  For a
\* *HandlerError the status of the response is the status code of the error
\* and its body is the JSON object carrying the description; for any other
\* error the response is the 500 "Internal Error" one.  The content type is
\* application/json in both cases.
C40_ErrorToResponse ==
    [][(served.exit = "none" /\ served'.exit # "none")
       => /\ served'.exit = "return"
          /\ ~served'.resp.isNil
          /\ served'.resp.ContentType = "application/json"
          /\ IF served'.err.code > 0
             THEN /\ served'.resp.StatusCode = served'.err.code
                  /\ served'.resp.Body.error[1] = served'.err.desc
             ELSE /\ served'.resp.StatusCode = 500
                  /\ served'.resp.Body = [error |-> <<"Internal Error">>]]_vars

\* the 400 error of a request without parameters was answered
C40_Witness ==
    /\ served.exit = "return"
    /\ served.err.code = 400
    /\ served.err.desc = "unexpected param num"
    /\ served.resp.StatusCode = 400

====
